---- MODULE Spec2Model ----
(***************************************************************************)
(* A model of the layout library: a declarative binary codec in which a    *)
(* layout value describes the bytes of a message, and serialize,           *)
(* deserialize, calcSize, calcStaticSize, setEndianness, the fixed/dynamic *)
(* split and the discriminator interpret that layout.                      *)
(*                                                                         *)
(* Representation.                                                         *)
(*  - A byte array (Uint8Array) is a sequence over 0..255; JS offsets are  *)
(*    0-based, so byte i of the program is element i+1 of the sequence.    *)
(*  - A JS value is a tagged record: a number or bigint is                 *)
(*    [t |-> "num", k, neg, mag, frac] with mag the little-endian base-256 *)
(*    digits of the integer part of its absolute value (no leading zero    *)
(*    digit), so that widths beyond TLC's native integers keep             *)
(*    their exact value; a Uint8Array is [t |-> "bytes", b]; a string is   *)
(*    [t |-> "str", s]; an object is [t |-> "obj", f] with f a function    *)
(*    from its keys; an array is [t |-> "arr", a]; undefined is            *)
(*    [t |-> "undef"].                                                     *)
(*  - An item is a record holding exactly the properties the JS object     *)
(*    holds, so that ("size" in item) is ("size" \in DOMAIN item).  A      *)
(*    proper layout (a JS array of named items) is [proper |-> <<..>>].    *)
(*  - A call that throws returns [ok |-> FALSE, err |-> kind, path |-> ..] *)
(***************************************************************************)
EXTENDS Integers, Sequences, FiniteSets, TLC

VARIABLES
  pc,       \* position of the calling program: the call it makes next
  layout,   \* the layout (or the list of candidate layouts) the caller holds
  data,     \* the value the caller passes to serialize / calcSize
  buf,      \* the byte array the caller passes to deserialize / the classifier
  res,      \* the results of the calls made so far, by name of the call
  store,    \* the cachedSerializedFrom properties put on custom objects so far
  target    \* the endianness the caller passes to setEndianness

vars == <<pc, layout, data, buf, res, store, target>>

(***************************************************************************)
(* Bounds of the model.                                                    *)
(***************************************************************************)
\* widest numeric item of the numeric scenarios, in bytes
MaxNumSize == 7

\* widest numeric item of the layouts of the codec scenarios, in bytes
MaxSize == 2

\* longest byte array a bytes field of a value holds
MaxBytesLen == 2

\* longest array an array field of a value holds
MaxArrayLen == 2

\* longest buffer of arbitrary bytes handed to the classifier
MaxBufLen == 4

(***************************************************************************)
(* Program constants.                                                      *)
(***************************************************************************)
numberMaxSize == 6

defaultEndianness == "big"

Byte == 0..255

\* const r = e, then F(r): e is evaluated at most once, and only when F uses r
Let(e, F(_)) == F(e)

(***************************************************************************)
(* Generic helpers.                                                        *)
(***************************************************************************)
Has(r, key) == key \in DOMAIN r

\* { ...r, ...s }
Spread(r, s) ==
  [key \in (DOMAIN r) \cup (DOMAIN s) |-> IF key \in DOMAIN s THEN s[key] ELSE r[key]]

EmptyObj == [key \in {} |-> 0]

Rep(byte, n) == [i \in 1..n |-> byte]

Reverse(s) == [i \in 1..Len(s) |-> s[Len(s) + 1 - i]]

Max(a, b) == IF a >= b THEN a ELSE b

Min(a, b) == IF a <= b THEN a ELSE b

Throw(kind) == [ok |-> FALSE, err |-> kind, path |-> <<>>]

\* catch (e) { e.message = `when ... item '${name}': ${e.message}`; throw e; }
Prefixed(r, name) == [r EXCEPT !.path = <<name>> \o r.path]

(***************************************************************************)
(* Values.                                                                 *)
(***************************************************************************)
Undef == [t |-> "undef"]

Bytes(b) == [t |-> "bytes", b |-> b]

Str(s) == [t |-> "str", s |-> s]

Bool(b) == [t |-> "bool", v |-> b]

Obj(f) == [t |-> "obj", f |-> f]

Arr(a) == [t |-> "arr", a |-> a]

\* an array of digits without its most significant zeros
RECURSIVE Trim(_)
Trim(d) == IF d # <<>> /\ d[Len(d)] = 0 THEN Trim(SubSeq(d, 1, Len(d) - 1)) ELSE d

\* the little-endian base-256 digits of a natural number the checker can hold
RECURSIVE Digits(_)
Digits(n) == IF n = 0 THEN <<>> ELSE <<n % 256>> \o Digits(n \div 256)

NumOf(kind, neg, mag) ==
  [t |-> "num", k |-> kind, neg |-> neg /\ Trim(mag) # <<>>, mag |-> Trim(mag), frac |-> FALSE]

\* the JS number n
Num(n) == NumOf("number", n < 0, Digits(IF n < 0 THEN -n ELSE n))

\* the JS bigint n
Big(n) == NumOf("bigint", n < 0, Digits(IF n < 0 THEN -n ELSE n))

\* the JS number n + 0.5 * sign(n): a number that is not an integer
Half(n) == [Num(n) EXCEPT !.frac = TRUE, !.neg = n < 0]

\* export const isNumType
isNumType(x) == Has(x, "t") /\ x.t = "num"

\* export const isBytesType
isBytesType(x) == Has(x, "t") /\ x.t = "bytes"

isPrimitiveType(x) == isNumType(x) \/ isBytesType(x)

(***************************************************************************)
(* Exact arithmetic on digit arrays.                                       *)
(***************************************************************************)
\* 2^bits as digits, for bits = 8k or 8k - 1
Pow2(bits) ==
  IF bits % 8 = 0 THEN Rep(0, bits \div 8) \o <<1>>
  ELSE Rep(0, bits \div 8) \o <<128>>

\* mag >= 2^bits, for bits = 8k or 8k - 1
GeqPow2(mag, bits) ==
  LET k == (bits + 1) \div 8
  IN IF bits % 8 = 0 THEN Len(mag) > k
     ELSE Len(mag) > k \/ (Len(mag) = k /\ mag[k] >= 128)

\* mag - 1 for mag > 0, kept at the same number of digits
RECURSIVE Dec(_)
Dec(d) ==
  IF d = <<>> THEN <<>>
  ELSE IF d[1] > 0 THEN <<d[1] - 1>> \o Tail(d)
  ELSE <<255>> \o Dec(Tail(d))

\* d + 1, with one more digit on carry out
RECURSIVE Inc(_)
Inc(d) ==
  IF d = <<>> THEN <<1>>
  ELSE IF d[1] < 255 THEN <<d[1] + 1>> \o Tail(d)
  ELSE <<0>> \o Inc(Tail(d))

\* left < right on values of tag "num" (the JS relational operators mix number and bigint)
RECURSIVE DigitsLess(_, _)
DigitsLess(a, b) ==
  IF Len(a) # Len(b) THEN Len(a) < Len(b)
  ELSE IF a = <<>> THEN FALSE
  ELSE IF a[Len(a)] # b[Len(b)] THEN a[Len(a)] < b[Len(b)]
  ELSE DigitsLess(SubSeq(a, 1, Len(a) - 1), SubSeq(b, 1, Len(b) - 1))

\* byte j (0 = least significant) of BigInt(val) >> 8j & 0xff: two's complement of any width
ByteOf(val, j) ==
  IF ~val.neg
  THEN IF j < Len(val.mag) THEN val.mag[j + 1] ELSE 0
  ELSE LET m1 == Dec(val.mag)
       IN 255 - (IF j < Len(m1) THEN m1[j + 1] ELSE 0)

(***************************************************************************)
(* utils.ts                                                                *)
(***************************************************************************)
\* custom != data (loose inequality: number and bigint compare by value)
LooseNumEq(a, b) ==
  /\ isNumType(a) /\ isNumType(b)
  /\ a.neg = b.neg /\ a.mag = b.mag /\ a.frac = b.frac

\* checkNumEquals that never throws
checkNumEqualsNever(custom, val) == [ok |-> TRUE]

checkNumEquals(custom, val) ==
  IF LooseNumEq(custom, val) THEN [ok |-> TRUE] ELSE Throw("ConstantMismatch")

checkSize(layoutSize, dataSize) ==
  IF layoutSize # dataSize THEN Throw("SizeMismatch") ELSE [ok |-> TRUE, size |-> dataSize]

checkItemSize(item, dataSize) ==
  IF Has(item, "size") THEN checkSize(item.size, dataSize)
  ELSE [ok |-> TRUE, size |-> dataSize]

(***************************************************************************)
(* Conversion functions: the custom.to / custom.from functions the         *)
(* library's own items and tests define.  A function value is              *)
(* [t |-> "fn", id |-> name].                                              *)
(***************************************************************************)
Fn(id) == [t |-> "fn", id |-> id]

isFn(x) == Has(x, "t") /\ x.t = "fn"

\* a decoded string, kept as the bytes of its UTF-8 encoding
Text(b) == [t |-> "text", b |-> b]

Ret(v) == [ok |-> TRUE, val |-> v]

\* enumItem([["a", 1], ["b", 2]])
enumNames == <<"a", "b">>

\* custom.to(x)
ConvTo(id, x) ==
  CASE id = "utf8" ->   \* new TextDecoder().decode(encoded)
         IF isBytesType(x) THEN Ret(Text(x.b)) ELSE Throw("TypeError")
    [] id = "bool" ->   \* boolItem(): not permissive
         IF x = Num(0) THEN Ret(Bool(FALSE))
         ELSE IF x = Num(1) THEN Ret(Bool(TRUE))
         ELSE Throw("InvalidBool")
    [] id = "enum" ->
         IF \E i \in 1..Len(enumNames) : x = Num(i)
         THEN Ret(Str(enumNames[CHOOSE i \in 1..Len(enumNames) : x = Num(i)]))
         ELSE Throw("InvalidEnum")
    [] id = "option" -> \* obj.isSome === true ? obj["value"] : undefined
         IF x.t = "obj" /\ Has(x.f, "isSome") /\ x.f.isSome = Bool(TRUE)
         THEN Ret(IF Has(x.f, "value") THEN x.f.value ELSE Undef)
         ELSE Ret(Undef)
    [] OTHER -> Throw("TypeError")

\* custom.from(x)
ConvFrom(id, x) ==
  CASE id = "utf8" ->   \* new TextEncoder().encode(decoded)
         IF x.t = "text" THEN Ret(Bytes(x.b)) ELSE Throw("TypeError")
    [] id = "bool" ->   \* value ? 1 : 0
         Ret(IF x = Bool(TRUE) THEN Num(1) ELSE Num(0))
    [] id = "enum" ->   \* nameToValue[name]
         IF x.t = "str" /\ \E i \in 1..Len(enumNames) : x.s = enumNames[i]
         THEN Ret(Num(CHOOSE i \in 1..Len(enumNames) : x.s = enumNames[i]))
         ELSE Ret(Undef)
    [] id = "option" -> \* value === undefined ? { isSome: false } : { isSome: true, value }
         IF x = Undef THEN Ret(Obj([isSome |-> Bool(FALSE)]))
         ELSE Ret(Obj([isSome |-> Bool(TRUE), value |-> x]))
    [] OTHER -> Throw("TypeError")

\* a { to: fn, from: fn } conversion
Conv(id) == [to |-> Fn(id), from |-> Fn(id)]

(***************************************************************************)
(* utils.ts: predicates on items and conversions                           *)
(***************************************************************************)
binaryLiterals == {"int", "uint", "bytes", "array", "switch"}

isItem(x) == Has(x, "binary") /\ x.binary \in binaryLiterals

isProper(x) == Has(x, "proper")

\* a proper layout: the array of its named items
Proper(items) == [proper |-> items]

\* { name, ...item }
Named(name, item) == Spread(item, [name |-> name])

\* item.custom, undefined when the property is absent
CustomOf(item) == IF Has(item, "custom") THEN item.custom ELSE Undef

\* isNumType(custom?.from)
isFixedUintConversion(custom) == Has(custom, "from") /\ isNumType(custom.from)

isFixedBytesConversion(custom) == Has(custom, "from") /\ isBytesType(custom.from)

isFixedPrimitiveConversion(custom) ==
  isFixedUintConversion(custom) \/ isFixedBytesConversion(custom)

\* ("omit" in item) && item.omit
IsOmitted(item) == Has(item, "omit") /\ item.omit

\* item.idTag ?? "id"
IdTagOf(item) == IF Has(item, "idTag") THEN item.idTag ELSE "id"

\* Array.isArray(idOrConversionId): a conversion id is the pair <<number, label>>
isConversionId(id) == Has(id, "wire")

PlainId(n) == Num(n)

ConvId(n, label) == [wire |-> Num(n), label |-> label]

\* the == of findIdLayoutPair, on the values the model holds
LooseEq(a, b) == IF isNumType(a) /\ isNumType(b) THEN LooseNumEq(a, b) ELSE a = b

\* findIdLayoutPair that compares the wire number of a conversion id, not its label
findIdLayoutPairByWire(item, val) ==
  LET id == IF val.t = "obj" /\ Has(val.f, IdTagOf(item)) THEN val.f[IdTagOf(item)] ELSE Undef
      hit(i) == LooseEq(IF isConversionId(item.layouts[i][1]) THEN item.layouts[i][1].wire
                        ELSE item.layouts[i][1], id)
  IN IF \E i \in 1..Len(item.layouts) : hit(i)
     THEN CHOOSE i \in 1..Len(item.layouts) : hit(i) /\ \A j \in 1..(i - 1) : ~hit(j)
     ELSE 0

\* findIdLayoutPair: the index of the first matching pair, 0 when find() returns undefined
findIdLayoutPair(item, val) ==
  LET id == IF val.t = "obj" /\ Has(val.f, IdTagOf(item)) THEN val.f[IdTagOf(item)] ELSE Undef
      hit(i) == LooseEq(IF isConversionId(item.layouts[i][1]) THEN item.layouts[i][1].label
                        ELSE item.layouts[i][1], id)
  IN IF \E i \in 1..Len(item.layouts) : hit(i)
     THEN CHOOSE i \in 1..Len(item.layouts) : hit(i) /\ \A j \in 1..(i - 1) : ~hit(j)
     ELSE 0

\* toSlice of checkBytesTypeEqual: the [start, end) a slice option selects
toSlice(bytes, opts, key) == IF Has(opts, key) THEN opts[key] ELSE <<0, Len(bytes)>>

\* checkBytesTypeEqual that compares the lengths and not the bytes
checkBytesTypeEqualLengthsOnly(custom, val, opts) ==
  IF ~isBytesType(val) THEN Throw("TypeError")
  ELSE
    LET cs == toSlice(custom.b, opts, "customSlice")
        ds == toSlice(val.b, opts, "dataSlice")
    IN IF cs[2] - cs[1] # ds[2] - ds[1] THEN Throw("SizeMismatch") ELSE [ok |-> TRUE]

\* checkBytesTypeEqual(custom, data, opts): opts holds the properties the caller passed
checkBytesTypeEqualOpts(custom, val, opts) ==
  IF ~isBytesType(val) THEN Throw("TypeError")
  ELSE
    LET cs == toSlice(custom.b, opts, "customSlice")
        ds == toSlice(val.b, opts, "dataSlice")
        at(b, i) == IF i < Len(b) THEN b[i + 1] ELSE -1  \* undefined past the end
    IN IF cs[2] - cs[1] # ds[2] - ds[1] THEN Throw("SizeMismatch")
       ELSE IF \E i \in 0..(Len(custom.b) - 1) : at(custom.b, i + cs[1]) # at(val.b, i + ds[1])
         THEN Throw("ConstantMismatch")
       ELSE [ok |-> TRUE]

checkBytesTypeEqual(custom, val) == checkBytesTypeEqualOpts(custom, val, EmptyObj)

(***************************************************************************)
(* size.ts                                                                 *)
(***************************************************************************)
\* const staticCalc = Symbol("staticCalc")
staticCalc == [t |-> "staticCalc"]

\* a size pass result: a number, or null; bc is the conversion queue so far
SizeIs(n, bc) == [ok |-> TRUE, isNull |-> FALSE, size |-> n, bc |-> bc]

SizeNull(bc) == [ok |-> TRUE, isNull |-> TRUE, size |-> 0, bc |-> bc]

RECURSIVE calcItemSize(_, _, _)
RECURSIVE internalCalcSize(_, _, _)
RECURSIVE calcArraySize(_, _, _, _, _, _)
RECURSIVE calcSwitchStaticSize(_, _, _, _, _)
RECURSIVE calcProperSize(_, _, _, _, _)

\* for (let i = 0; i < data.length; ++i) { ... size += entrySize; }
\* over the elements lo..hi in their order; the range is halved, so that the
\* depth of the evaluation grows with the logarithm of the length
calcArraySize(item, val, lo, hi, size, bc) ==
  IF lo > hi THEN SizeIs(size, bc)
  ELSE IF lo = hi
    THEN Let(internalCalcSize(item.layout, val.a[lo], bc), LAMBDA entry :
            IF ~entry.ok THEN entry
            ELSE IF entry.isNull THEN SizeNull(entry.bc)
            ELSE SizeIs(size + entry.size, entry.bc))
  ELSE Let(calcArraySize(item, val, lo, (lo + hi) \div 2, size, bc), LAMBDA first :
          IF ~first.ok \/ first.isNull THEN first
          ELSE calcArraySize(item, val, (lo + hi) \div 2 + 1, hi, first.size, first.bc))

\* for (const [_, layout] of item.layouts) { ... }  return item.idSize + size!
calcSwitchStaticSize(item, i, sizeIsNull, size, bc) ==
  IF i > Len(item.layouts)
  THEN SizeIs(item.idSize + (IF sizeIsNull THEN 0 ELSE size), bc)   \* number + null is number
  ELSE Let(internalCalcSize(item.layouts[i][2], staticCalc, bc), LAMBDA branch :
          IF ~branch.ok THEN branch
          ELSE IF sizeIsNull
            THEN calcSwitchStaticSize(item, i + 1, branch.isNull, branch.size, branch.bc)
          ELSE IF branch.isNull \/ branch.size # size THEN SizeNull(branch.bc)
          ELSE calcSwitchStaticSize(item, i + 1, sizeIsNull, size, branch.bc))

calcItemSize(item, val, bc) ==
  CASE item.binary \in {"int", "uint"} -> SizeIs(item.size, bc)
    [] item.binary = "bytes" ->
         IF Has(item, "size") /\ val = staticCalc THEN SizeIs(item.size, bc)
         ELSE
           LET lengthSize == IF Has(item, "lengthSize") THEN item.lengthSize ELSE 0
               custom == CustomOf(item)
           IN IF Has(item, "layout")
              THEN
                Let(        IF custom # Undef /\ isFn(custom.from) /\ val # staticCalc
                            THEN ConvFrom(custom.from.id, val) ELSE Ret(Undef), LAMBDA conv :
                LET nested == IF custom = Undef THEN val
                              ELSE IF isFn(custom.from)
                                THEN (IF val # staticCalc THEN conv.val ELSE staticCalc)
                              ELSE custom.from
                    bc1 == IF custom # Undef /\ isFn(custom.from) /\ val # staticCalc
                           THEN Append(bc, nested) ELSE bc
                IN IF ~conv.ok THEN conv
                   ELSE Let(internalCalcSize(item.layout, nested, bc1), LAMBDA inner :
                           IF ~inner.ok THEN inner
                           ELSE IF inner.isNull
                             THEN (IF Has(item, "size") THEN SizeIs(item.size, inner.bc)
                                   ELSE SizeNull(inner.bc))
                           ELSE LET chk == checkItemSize(item, inner.size)
                                IN IF ~chk.ok THEN chk
                                   ELSE SizeIs(lengthSize + chk.size, inner.bc)))
              ELSE IF isBytesType(custom) THEN SizeIs(lengthSize + Len(custom.b), bc)
              ELSE IF isFixedBytesConversion(custom)
                THEN SizeIs(lengthSize + Len(custom.from.b), bc)
              ELSE IF val = staticCalc THEN SizeNull(bc)
              ELSE
                Let(IF custom # Undef THEN ConvFrom(custom.from.id, val) ELSE Ret(val), LAMBDA conv :
                   IF ~conv.ok THEN conv
                   ELSE IF ~isBytesType(conv.val) THEN Throw("TypeError")
                   ELSE LET chk == checkItemSize(item, Len(conv.val.b))
                        IN IF ~chk.ok THEN chk
                           ELSE SizeIs(lengthSize + chk.size,
                                       IF custom # Undef THEN Append(bc, conv.val) ELSE bc))
    [] item.binary = "array" ->
         IF val = staticCalc
         THEN IF Has(item, "length")
              THEN Let(internalCalcSize(item.layout, staticCalc, bc), LAMBDA inner :
                      IF ~inner.ok THEN inner
                      ELSE IF inner.isNull THEN SizeNull(inner.bc)
                      ELSE SizeIs(item.length * inner.size, inner.bc))
              ELSE SizeNull(bc)
         ELSE IF val.t # "arr" THEN Throw("TypeError")
         ELSE IF Has(item, "length") /\ item.length # Len(val.a) THEN Throw("ArrayLengthMismatch")
         ELSE calcArraySize(item, val, 1, Len(val.a),
                            IF ~Has(item, "length") /\ Has(item, "lengthSize")
                            THEN item.lengthSize ELSE 0,
                            bc)
    [] item.binary = "switch" ->
         IF val # staticCalc
         THEN Let(findIdLayoutPair(item, val), LAMBDA idx :
                 IF idx = 0 THEN Throw("TypeError")   \* destructuring undefined
                 ELSE Let(internalCalcSize(item.layouts[idx][2], val, bc), LAMBDA inner :
                         IF ~inner.ok THEN inner
                         ELSE IF inner.isNull THEN SizeNull(inner.bc)
                         ELSE SizeIs(item.idSize + inner.size, inner.bc)))
         ELSE calcSwitchStaticSize(item, 1, TRUE, 0, bc)

\* the loop of internalCalcSize over the items of a proper layout
calcProperSize(items, val, i, size, bc) ==
  IF i > Len(items) THEN SizeIs(size, bc)
  ELSE
    LET item == items[i]
        needsData == val # staticCalc /\ ~IsOmitted(item)
    IN IF needsData /\ val.t # "obj" THEN Throw("TypeError")      \* (name in data)
       ELSE IF needsData /\ ~Has(val.f, item.name)
         THEN Prefixed(Throw("UnknownField"), item.name)   \* `missing data for layout item: ${item.name}`
       ELSE
         LET itemData == IF val = staticCalc THEN staticCalc
                         ELSE IF needsData THEN val.f[item.name] ELSE Undef
         IN Let(calcItemSize(item, itemData, bc), LAMBDA itemSize :
            IF ~itemSize.ok THEN itemSize
            ELSE IF itemSize.isNull
              THEN (IF val # staticCalc
                    THEN Prefixed(Throw("IncompleteData"), item.name)  \* `... for layout item: ${item.name}`
                    ELSE SizeNull(itemSize.bc))
            ELSE calcProperSize(items, val, i + 1, size + itemSize.size, itemSize.bc))

internalCalcSize(lay, val, bc) ==
  IF isItem(lay) THEN calcItemSize(lay, val, bc)
  ELSE calcProperSize(lay.proper, val, 1, 0, bc)

\* calcSize that forgets its data argument and sizes the layout alone
calcSizeWithoutData(lay, val) ==
  Let(internalCalcSize(lay, staticCalc, <<>>), LAMBDA r :
     IF ~r.ok THEN r
     ELSE IF r.isNull THEN Throw("IncompleteData")
     ELSE [ok |-> TRUE, size |-> r.size])

\* export function calcSize(layout, data)
calcSize(lay, val) ==
  Let(internalCalcSize(lay, val, <<>>), LAMBDA r :
     IF ~r.ok THEN r
     ELSE IF r.isNull THEN Throw("IncompleteData")
     ELSE [ok |-> TRUE, size |-> r.size])

\* calcStaticSize that reports the bytes counted so far where the size is unknown
calcStaticSizeCounted(lay) ==
  Let(internalCalcSize(lay, staticCalc, <<>>), LAMBDA r :
     IF ~r.ok THEN r ELSE [ok |-> TRUE, isNull |-> FALSE, size |-> r.size])

\* export function calcStaticSize(layout): size, or isNull for null
calcStaticSize(lay) ==
  Let(internalCalcSize(lay, staticCalc, <<>>), LAMBDA r :
     IF ~r.ok THEN r ELSE [ok |-> TRUE, isNull |-> r.isNull, size |-> r.size])

\* export function calcSizeForSerialization(layout, data)
calcSizeForSerialization(lay, val) ==
  Let(internalCalcSize(lay, val, <<>>), LAMBDA r :
     IF ~r.ok THEN r
     ELSE IF r.isNull THEN Throw("IncompleteData")
     ELSE [ok |-> TRUE, size |-> r.size, bytesConversions |-> r.bc])

(***************************************************************************)
(* serialize.ts: serializeNum                                              *)
(***************************************************************************)
\* cursor.bytes[i] = v : an index past the end of a typed array is ignored
SetByte(bytes, i, v) == IF i < Len(bytes) THEN [bytes EXCEPT ![i + 1] = v] ELSE bytes

RECURSIVE WriteNumBytes(_, _, _, _, _, _)
WriteNumBytes(bytes, offset, val, size, endianness, i) ==
  IF i >= size THEN bytes
  ELSE WriteNumBytes(
         SetByte(bytes, offset + i, ByteOf(val, IF endianness = "big" THEN size - i - 1 ELSE i)),
         offset, val, size, endianness, i + 1)

\* val >= 2^(numberMaxSize * 8)
TooLargeForNumber(val) == ~val.neg /\ GeqPow2(val.mag, numberMaxSize * 8)

\* val < -2^(numberMaxSize * 8)
TooSmallForNumber(val) == val.neg /\ DigitsLess(Pow2(numberMaxSize * 8), val.mag)

\* serializeNum that bounds a signed value like an unsigned one (the sign bit forgotten)
serializeNumUnsignedBound(val, size, cursor, endianness, signed) ==
  IF ~isNumType(val) THEN Throw("TypeError")
  ELSE IF ~signed /\ val.neg THEN Throw("OutOfRange")
  ELSE IF val.k = "number" /\ val.frac THEN Throw("OutOfRange")
  ELSE IF val.k = "number" /\ size > numberMaxSize /\ TooLargeForNumber(val)
    THEN Throw("OutOfRange")
  ELSE IF val.k = "number" /\ size > numberMaxSize /\ signed /\ TooSmallForNumber(val)
    THEN Throw("OutOfRange")
  ELSE LET bits == size * 8
       IN IF ~val.neg /\ GeqPow2(val.mag, bits) THEN Throw("OutOfRange")
          ELSE IF signed /\ val.neg /\ DigitsLess(Pow2(bits), val.mag) THEN Throw("OutOfRange")
          ELSE [ok |-> TRUE,
                cursor |-> [bytes |-> WriteNumBytes(cursor.bytes, cursor.offset, val, size,
                                                    endianness, 0),
                            offset |-> cursor.offset + size]]

serializeNum(val, size, cursor, endianness, signed) ==
  IF ~isNumType(val) THEN Throw("TypeError")
  ELSE IF ~signed /\ val.neg THEN Throw("OutOfRange")
  ELSE IF val.k = "number" /\ val.frac THEN Throw("OutOfRange")
  ELSE IF val.k = "number" /\ size > numberMaxSize /\ TooLargeForNumber(val)
    THEN Throw("OutOfRange")
  ELSE IF val.k = "number" /\ size > numberMaxSize /\ signed /\ TooSmallForNumber(val)
    THEN Throw("OutOfRange")
  ELSE LET bits == size * 8 - (IF signed THEN 1 ELSE 0)
       IN IF ~val.neg /\ GeqPow2(val.mag, bits) THEN Throw("OutOfRange")
          ELSE IF signed /\ val.neg /\ DigitsLess(Pow2(bits), val.mag) THEN Throw("OutOfRange")
          ELSE [ok |-> TRUE,
                cursor |-> [bytes |-> WriteNumBytes(cursor.bytes, cursor.offset, val, size,
                                                    endianness, 0),
                            offset |-> cursor.offset + size]]

(***************************************************************************)
(* serialize.ts: the write pass                                            *)
(***************************************************************************)
\* cursorWrite that sets the bytes and leaves cursor.offset where it was
cursorWriteInPlace(cursor, val) ==
  IF ~isBytesType(val) THEN Throw("TypeError")
  ELSE IF cursor.offset + Len(val.b) > Len(cursor.bytes) THEN Throw("RangeError")
  ELSE [ok |-> TRUE,
        cursor |-> [bytes |-> [i \in 1..Len(cursor.bytes) |->
                                 IF i > cursor.offset /\ i <= cursor.offset + Len(val.b)
                                 THEN val.b[i - cursor.offset] ELSE cursor.bytes[i]],
                    offset |-> cursor.offset]]

\* cursor.bytes.set(bytes, cursor.offset); cursor.offset += bytes.length
cursorWrite(cursor, val) ==
  IF ~isBytesType(val) THEN Throw("TypeError")
  ELSE IF cursor.offset + Len(val.b) > Len(cursor.bytes) THEN Throw("RangeError")
  ELSE [ok |-> TRUE,
        cursor |-> [bytes |-> [i \in 1..Len(cursor.bytes) |->
                                 IF i > cursor.offset /\ i <= cursor.offset + Len(val.b)
                                 THEN val.b[i - cursor.offset] ELSE cursor.bytes[i]],
                    offset |-> cursor.offset + Len(val.b)]]

\* bcqGetNext that takes the entries from the end of the queue
bcqGetNextFromEnd(bcq) ==
  IF bcq.position < Len(bcq.bytesConversions)
  THEN bcq.bytesConversions[Len(bcq.bytesConversions) - bcq.position]
  ELSE Undef

\* bcq.bytesConversions[bcq.position++]
bcqGetNext(bcq) ==
  IF bcq.position < Len(bcq.bytesConversions) THEN bcq.bytesConversions[bcq.position + 1]
  ELSE Undef

bcqAdvance(bcq) == [bcq EXCEPT !.position = bcq.position + 1]

\* the state of a write pass that goes on: the cursor and the queue
Wrote(cursor, bcq) == [ok |-> TRUE, cursor |-> cursor, bcq |-> bcq]

\* EndiannessOf that takes the default whatever the item says
EndiannessOfDefault(item, key) == defaultEndianness

EndiannessOf(item, key) == IF Has(item, key) THEN item[key] ELSE defaultEndianness

RECURSIVE serializeItem(_, _, _, _)
RECURSIVE internalSerialize(_, _, _, _)
RECURSIVE serializeProper(_, _, _, _, _)
RECURSIVE serializeArray(_, _, _, _, _, _)

\* for (let i = 0; i < data.length; ++i) internalSerialize(item.layout, data[i], cursor, bcq)
\* over the elements lo..hi in their order; the range is halved, so that the
\* depth of the evaluation grows with the logarithm of the length
serializeArray(item, val, lo, hi, cursor, bcq) ==
  IF lo > hi THEN Wrote(cursor, bcq)
  ELSE IF lo = hi THEN internalSerialize(item.layout, val.a[lo], cursor, bcq)
  ELSE Let(serializeArray(item, val, lo, (lo + hi) \div 2, cursor, bcq), LAMBDA r :
          IF ~r.ok THEN r
          ELSE serializeArray(item, val, (lo + hi) \div 2 + 1, hi, r.cursor, r.bcq))

\* the value a numeric item writes when the constant is not compared with the data
numValueToWriteUnchecked(item, val) ==
  LET custom == CustomOf(item)
  IN IF isNumType(custom) THEN Ret(custom)
     ELSE IF isFixedUintConversion(custom) THEN Ret(custom.from)
     ELSE IF custom # Undef THEN ConvFrom(custom.from.id, val)
     ELSE Ret(val)

\* the value a numeric item writes
numValueToWrite(item, val) ==
  LET custom == CustomOf(item)
  IN IF isNumType(custom)
     THEN LET chk == IF ~IsOmitted(item) THEN checkNumEquals(custom, val) ELSE [ok |-> TRUE]
          IN IF ~chk.ok THEN chk ELSE Ret(custom)
     ELSE IF isFixedUintConversion(custom) THEN Ret(custom.from)
     ELSE IF custom # Undef THEN ConvFrom(custom.from.id, val)
     ELSE Ret(val)

serializeItem(item, val, cursor, bcq) ==
  CASE item.binary \in {"int", "uint"} ->
         Let(numValueToWrite(item, val), LAMBDA value :
            IF ~value.ok THEN value
            ELSE Let(     serializeNum(value.val, item.size, cursor,
                                       EndiannessOf(item, "endianness"), item.binary = "int"), LAMBDA w :
                    IF ~w.ok THEN w ELSE Wrote(w.cursor, bcq)))
    [] item.binary = "bytes" ->
         LET offset == cursor.offset
             start == IF Has(item, "lengthSize")
                      THEN [cursor EXCEPT !.offset = cursor.offset + item.lengthSize]
                      ELSE cursor
             custom == CustomOf(item)
         IN Let(
               IF Has(item, "layout")
               THEN IF custom = Undef THEN internalSerialize(item.layout, val, start, bcq)
                    ELSE IF ~isFn(custom.from)
                      THEN internalSerialize(item.layout, custom.from, start, bcq)
                    ELSE internalSerialize(item.layout, bcqGetNext(bcq), start, bcqAdvance(bcq))
               ELSE IF isBytesType(custom)
                 THEN LET chk == IF ~IsOmitted(item) THEN checkBytesTypeEqual(custom, val)
                                 ELSE [ok |-> TRUE]
                          w == cursorWrite(start, custom)
                      IN IF ~chk.ok THEN chk ELSE IF ~w.ok THEN w ELSE Wrote(w.cursor, bcq)
               ELSE IF isFixedBytesConversion(custom)
                 THEN LET w == cursorWrite(start, custom.from)
                      IN IF ~w.ok THEN w ELSE Wrote(w.cursor, bcq)
               ELSE IF custom # Undef
                 THEN LET w == cursorWrite(start, bcqGetNext(bcq))
                      IN IF ~w.ok THEN w ELSE Wrote(w.cursor, bcqAdvance(bcq))
               ELSE LET w == cursorWrite(start, val)
                    IN IF ~w.ok THEN w ELSE Wrote(w.cursor, bcq), LAMBDA payload :
            IF ~payload.ok THEN payload
            ELSE IF Has(item, "lengthSize")
              THEN LET itemSize == payload.cursor.offset - offset - item.lengthSize
                   IN Let(  serializeNum(Num(itemSize), item.lengthSize,
                                         [payload.cursor EXCEPT !.offset = offset],
                                         EndiannessOf(item, "lengthEndianness"), FALSE), LAMBDA w :
                      IF ~w.ok THEN w
                      ELSE Wrote([w.cursor EXCEPT !.offset = payload.cursor.offset], payload.bcq))
            ELSE LET chk == checkItemSize(item, payload.cursor.offset - offset)
                 IN IF ~chk.ok THEN chk ELSE payload)
    [] item.binary = "array" ->
         IF val.t # "arr" THEN Throw("TypeError")
         ELSE IF Has(item, "length") /\ item.length # Len(val.a) THEN Throw("ArrayLengthMismatch")
         ELSE IF Has(item, "lengthSize")
           THEN Let(     serializeNum(Num(Len(val.a)), item.lengthSize, cursor,
                                      EndiannessOf(item, "lengthEndianness"), FALSE), LAMBDA w :
                   IF ~w.ok THEN w ELSE serializeArray(item, val, 1, Len(val.a), w.cursor, bcq))
         ELSE serializeArray(item, val, 1, Len(val.a), cursor, bcq)
    [] item.binary = "switch" ->
         Let(findIdLayoutPair(item, val), LAMBDA idx :
            IF idx = 0 THEN Throw("TypeError")
            ELSE LET id == item.layouts[idx][1]
                     idNum == IF isConversionId(id) THEN id.wire ELSE id
                 IN Let(  serializeNum(idNum, item.idSize, cursor,
                                       EndiannessOf(item, "idEndianness"), FALSE), LAMBDA w :
                    IF ~w.ok THEN w
                    ELSE internalSerialize(item.layouts[idx][2], val, w.cursor, bcq)))

\* for (const item of layout) try { serializeItem(item, data[item.name], ...) } catch ...
serializeProper(items, val, i, cursor, bcq) ==
  IF i > Len(items) THEN Wrote(cursor, bcq)
  ELSE LET item == items[i]
       IN Let(  IF val = Undef THEN Throw("TypeError")      \* undefined[item.name]
                ELSE serializeItem(item,
                                   IF val.t = "obj" /\ Has(val.f, item.name)
                                   THEN val.f[item.name] ELSE Undef,
                                   cursor, bcq), LAMBDA r :
          IF ~r.ok THEN Prefixed(r, item.name)
          ELSE serializeProper(items, val, i + 1, r.cursor, r.bcq))

internalSerialize(lay, val, cursor, bcq) ==
  IF isItem(lay) THEN serializeItem(lay, val, cursor, bcq)
  ELSE serializeProper(lay.proper, val, 1, cursor, bcq)

\* the check that ends serialize when no buffer was supplied
writtenToEnd(cursor) == cursor.offset = Len(cursor.bytes)

\* serialize that writes into a zeroed array of the length of the one supplied
serializeClearing(lay, val, encoded) ==
  Let(calcSizeForSerialization(lay, val), LAMBDA sized :
     IF ~sized.ok THEN sized
     ELSE
       LET cursor == [bytes |-> Rep(0, IF encoded = Undef THEN sized.size ELSE Len(encoded.b)),
                      offset |-> 0]
       IN Let(  internalSerialize(lay, val, cursor,
                                  [bytesConversions |-> sized.bytesConversions, position |-> 0]), LAMBDA w :
          IF ~w.ok THEN w
          ELSE IF encoded = Undef /\ ~writtenToEnd(w.cursor) THEN Throw("UnderWrite")
          ELSE [ok |-> TRUE,
                ret |-> IF encoded = Undef THEN Bytes(w.cursor.bytes) ELSE Num(w.cursor.offset),
                cursor |-> w.cursor,
                bcq |-> w.bcq]))

\* export function serialize(layout, data, encoded?): encoded is Undef or a byte array
serialize(lay, val, encoded) ==
  Let(calcSizeForSerialization(lay, val), LAMBDA sized :
     IF ~sized.ok THEN sized
     ELSE
       LET cursor == [bytes |-> IF encoded = Undef THEN Rep(0, sized.size) ELSE encoded.b,
                      offset |-> 0]
       IN Let(  internalSerialize(lay, val, cursor,
                                  [bytesConversions |-> sized.bytesConversions, position |-> 0]), LAMBDA w :
          IF ~w.ok THEN w
          ELSE IF encoded = Undef /\ ~writtenToEnd(w.cursor) THEN Throw("UnderWrite")
          ELSE [ok |-> TRUE,
                ret |-> IF encoded = Undef THEN Bytes(w.cursor.bytes) ELSE Num(w.cursor.offset),
                cursor |-> w.cursor,
                bcq |-> w.bcq]))

(***************************************************************************)
(* deserialize.ts: updateOffset, deserializeNum                            *)
(***************************************************************************)
\* updateOffset that also throws when the new offset is the end of the chunk
updateOffsetBelowEnd(encoded, size) ==
  IF encoded.offset + size >= encoded.end THEN Throw("Truncated")
  ELSE [ok |-> TRUE, encoded |-> [encoded EXCEPT !.offset = encoded.offset + size]]

updateOffset(encoded, size) ==
  IF encoded.offset + size > encoded.end THEN Throw("Truncated")
  ELSE [ok |-> TRUE, encoded |-> [encoded EXCEPT !.offset = encoded.offset + size]]

\* carve that hands out the sub-chunk without moving the offset of its parent
carveUnchecked(encoded, expectedSize) ==
  [ok |-> TRUE, encoded |-> encoded,
   subChunk |-> [encoded EXCEPT !.end = encoded.offset + expectedSize]]

\* const subChunk = {...encoded, end: encoded.offset + expectedSize};
\* updateOffset(encoded, expectedSize);
carve(encoded, expectedSize) ==
  LET subChunk == [encoded EXCEPT !.end = encoded.offset + expectedSize]
      upd == updateOffset(encoded, expectedSize)
  IN IF ~upd.ok THEN upd
     ELSE [ok |-> TRUE, encoded |-> upd.encoded, subChunk |-> subChunk]

\* deserializeNum taking the sign from the last byte read, whatever the byte order
deserializeNumSignLast(encoded, size, endianness, signed) ==
  IF encoded.offset + size > Len(encoded.bytes) THEN Throw("TypeError")
  ELSE
    LET raw    == SubSeq(encoded.bytes, encoded.offset + 1, encoded.offset + size)
        le     == IF endianness = "big" THEN Reverse(raw) ELSE raw
        isNeg  == signed /\ size > 0 /\ raw[size] >= 128
        mag    == IF isNeg THEN Inc([i \in 1..size |-> 255 - le[i]]) ELSE le
        kind   == IF size > numberMaxSize THEN "bigint" ELSE "number"
        upd    == updateOffset(encoded, size)
    IN IF ~upd.ok THEN upd
       ELSE [ok |-> TRUE, val |-> NumOf(kind, isNeg, mag), encoded |-> upd.encoded]

deserializeNum(encoded, size, endianness, signed) ==
  IF encoded.offset + size > Len(encoded.bytes) THEN Throw("TypeError")  \* BigInt(undefined)
  ELSE
    LET raw    == SubSeq(encoded.bytes, encoded.offset + 1, encoded.offset + size)
        le     == IF endianness = "big" THEN Reverse(raw) ELSE raw
        signBt == encoded.bytes[encoded.offset + (IF endianness = "big" THEN 0 ELSE size - 1) + 1]
        isNeg  == signed /\ size > 0 /\ signBt >= 128
        \* val -= 1n << BigInt(8 * size)
        mag    == IF isNeg THEN Inc([i \in 1..size |-> 255 - le[i]]) ELSE le
        kind   == IF size > numberMaxSize THEN "bigint" ELSE "number"
        upd    == updateOffset(encoded, size)
    IN IF ~upd.ok THEN upd
       ELSE [ok |-> TRUE, val |-> NumOf(kind, isNeg, mag), encoded |-> upd.encoded]

(***************************************************************************)
(* deserialize.ts: the read pass.  A chunk is [bytes, offset, end, heap];  *)
(* heap is the store of cachedSerializedFrom properties that               *)
(* getCachedSerializedFrom has put on custom objects: a function from the  *)
(* custom objects that hold one to the bytes it holds.                     *)
(***************************************************************************)
\* the TLC integer of a small non-negative number (a length prefix)
RECURSIVE IntOfDigits(_)
IntOfDigits(d) == IF d = <<>> THEN 0 ELSE d[1] + 256 * IntOfDigits(Tail(d))

IntOf(val) == IntOfDigits(val.mag)

\* bytes.subarray(from, to): clamped to the array
subarray(bytes, from, to) == SubSeq(bytes, Min(from, Len(bytes)) + 1, Min(to, Len(bytes)))

\* an error raised while the store of cached serializations is heap
WithHeap(r, heap) == IF r.ok \/ Has(r, "heap") THEN r ELSE Spread(r, [heap |-> heap])

Read(val, encoded) == [ok |-> TRUE, val |-> val, encoded |-> encoded]

\* serialize.ts getCachedSerializedFrom(item): [ok, bytes, heap]
getCachedSerializedFrom(item, heap) ==
  IF item.custom \in DOMAIN heap
  THEN [ok |-> TRUE, bytes |-> heap[item.custom], heap |-> heap]
  ELSE Let(serialize(item.layout, item.custom.from, Undef), LAMBDA ser :
          IF ~ser.ok THEN WithHeap(ser, heap)
          ELSE LET heap1 == [c \in DOMAIN heap \cup {item.custom} |->
                               IF c = item.custom THEN ser.ret ELSE heap[c]]
               IN IF Has(item, "size") /\ item.size # Len(ser.ret.b)
                  THEN WithHeap(Throw("MalformedLayout"), heap1)
                  ELSE [ok |-> TRUE, bytes |-> ser.ret, heap |-> heap1])

RECURSIVE deserializeItem(_, _)
RECURSIVE internalDeserialize(_, _)
RECURSIVE deserializeProper(_, _, _, _)
RECURSIVE deserializeCount(_, _, _, _)
RECURSIVE deserializeRest(_, _, _)

\* for (let i = 0; i < length; ++i) deserializeArrayItem()
deserializeCount(item, encoded, n, ret) ==
  IF n <= 0 THEN Read(Arr(ret), encoded)
  ELSE Let(internalDeserialize(item.layout, encoded), LAMBDA r :
          IF ~r.ok THEN r ELSE deserializeCount(item, r.encoded, n - 1, Append(ret, r.val)))

\* while (encoded.offset < encoded.end) deserializeArrayItem()
\* an element that reads nothing leaves the loop condition true for ever
deserializeRest(item, encoded, ret) ==
  IF ~(encoded.offset < encoded.end) THEN Read(Arr(ret), encoded)
  ELSE Let(internalDeserialize(item.layout, encoded), LAMBDA r :
          IF ~r.ok THEN r
          ELSE IF r.encoded.offset = encoded.offset
            THEN WithHeap([ok |-> FALSE, err |-> "NoTermination", path |-> <<>>], r.encoded.heap)
          ELSE deserializeRest(item, r.encoded, Append(ret, r.val)))

deserializeItem(item, encoded) ==
  CASE item.binary \in {"int", "uint"} ->
         Let(     deserializeNum(encoded, item.size, EndiannessOf(item, "endianness"),
                                 item.binary = "int"), LAMBDA n :
         LET custom == CustomOf(item)
         IN IF ~n.ok THEN WithHeap(n, encoded.heap)
            ELSE IF isNumType(custom)
              THEN LET chk == checkNumEquals(custom, n.val)
                   IN IF ~chk.ok THEN WithHeap(chk, encoded.heap) ELSE Read(custom, n.encoded)
            ELSE IF isFixedUintConversion(custom)
              THEN LET chk == checkNumEquals(custom.from, n.val)
                   IN IF ~chk.ok THEN WithHeap(chk, encoded.heap) ELSE Read(custom.to, n.encoded)
            ELSE IF custom # Undef
              THEN Let(ConvTo(custom.to.id, n.val), LAMBDA c :
                      IF ~c.ok THEN WithHeap(c, encoded.heap) ELSE Read(c.val, n.encoded))
            ELSE Read(n.val, n.encoded))
    [] item.binary = "bytes" ->
         Let(          IF Has(item, "lengthSize")
                       THEN deserializeNum(encoded, item.lengthSize,
                                           EndiannessOf(item, "lengthEndianness"), FALSE)
                       ELSE Read(Undef, encoded), LAMBDA prefix :
            IF ~prefix.ok THEN WithHeap(prefix, encoded.heap)
            ELSE
              LET enc == prefix.encoded
                  known == Has(item, "lengthSize") \/ Has(item, "size")
                  expectedSize == IF Has(item, "lengthSize") THEN IntOf(prefix.val)
                                  ELSE IF Has(item, "size") THEN item.size ELSE 0
                  custom == CustomOf(item)
              IN IF Has(item, "layout")
                 THEN
                   LET offset == enc.offset
                       upd == IF known THEN updateOffset(enc, expectedSize)
                              ELSE [ok |-> TRUE, encoded |-> enc]
                   IN Let(      IF ~known THEN internalDeserialize(item.layout, enc)
                                ELSE internalDeserialize(item.layout,
                                       [enc EXCEPT !.end = enc.offset + expectedSize]), LAMBDA inner :
                      IF ~upd.ok THEN WithHeap(upd, enc.heap)
                      ELSE IF ~inner.ok THEN inner
                      ELSE IF known /\ inner.encoded.offset # inner.encoded.end
                        THEN WithHeap(Throw("ReadLess"), inner.encoded.heap)
                      ELSE
                        LET after == IF known
                                     THEN [upd.encoded EXCEPT !.heap = inner.encoded.heap]
                                     ELSE inner.encoded
                        IN IF custom = Undef THEN Read(inner.val, after)
                           ELSE IF ~isFn(custom.from)
                             THEN Let(getCachedSerializedFrom(item, after.heap), LAMBDA cached :
                                     IF ~cached.ok THEN cached
                                     ELSE Let(       checkBytesTypeEqualOpts(
                                                       cached.bytes, Bytes(after.bytes),
                                                       [dataSlize |-> <<offset, after.offset>>]), LAMBDA chk :
                                             IF ~chk.ok THEN WithHeap(chk, cached.heap)
                                             ELSE Read(custom.to,
                                                       [after EXCEPT !.heap = cached.heap])))
                           ELSE Let(ConvTo(custom.to.id, inner.val), LAMBDA c :
                                   IF ~c.ok THEN WithHeap(c, after.heap) ELSE Read(c.val, after)))
                 ELSE IF isBytesType(custom) \/ isFixedBytesConversion(custom)
                   THEN
                     LET fixedFrom == IF isBytesType(custom) THEN custom ELSE custom.from
                         size == IF known THEN expectedSize ELSE Len(fixedFrom.b)
                         value == subarray(enc.bytes, enc.offset, enc.offset + size)
                     IN Let(checkBytesTypeEqual(fixedFrom, Bytes(value)), LAMBDA chk :
                     LET upd == updateOffset(enc, size)
                     IN IF ~chk.ok THEN WithHeap(chk, enc.heap)
                        ELSE IF ~upd.ok THEN WithHeap(upd, enc.heap)
                        ELSE Read(IF isBytesType(custom) THEN fixedFrom ELSE custom.to,
                                  upd.encoded))
                 ELSE
                   LET start == enc.offset
                       end == IF known THEN enc.offset + expectedSize ELSE enc.end
                       upd == updateOffset(enc, end - start)
                       value == Bytes(subarray(enc.bytes, start, end))
                   IN IF ~upd.ok THEN WithHeap(upd, enc.heap)
                      ELSE IF custom # Undef
                        THEN Let(ConvTo(custom.to.id, value), LAMBDA c :
                                IF ~c.ok THEN WithHeap(c, enc.heap) ELSE Read(c.val, upd.encoded))
                      ELSE Read(value, upd.encoded))
    [] item.binary = "array" ->
         IF Has(item, "length") THEN deserializeCount(item, encoded, item.length, <<>>)
         ELSE IF Has(item, "lengthSize")
           THEN Let(     deserializeNum(encoded, item.lengthSize,
                                        EndiannessOf(item, "lengthEndianness"), FALSE), LAMBDA n :
                   IF ~n.ok THEN WithHeap(n, encoded.heap)
                   ELSE deserializeCount(item, n.encoded, IntOf(n.val), <<>>))
         ELSE deserializeRest(item, encoded, <<>>)
    [] item.binary = "switch" ->
         Let(deserializeNum(encoded, item.idSize, EndiannessOf(item, "idEndianness"), FALSE), LAMBDA n :
            IF ~n.ok THEN WithHeap(n, encoded.heap)
            ELSE IF Len(item.layouts) = 0 THEN WithHeap(Throw("NoLayouts"), encoded.heap)
            ELSE
              LET hasPlainIds == ~isConversionId(item.layouts[1][1])
                  hit(i) == IF hasPlainIds THEN item.layouts[i][1] = n.val
                            ELSE isConversionId(item.layouts[i][1])
                                 /\ item.layouts[i][1].wire = n.val
                  found == \E i \in 1..Len(item.layouts) : hit(i)
                  idx == CHOOSE i \in 1..Len(item.layouts) : hit(i) /\ \A j \in 1..(i - 1) : ~hit(j)
              IN IF ~found THEN WithHeap(Throw("UnknownSwitchId"), encoded.heap)
                 ELSE Let(internalDeserialize(item.layouts[idx][2], n.encoded), LAMBDA r :
                         IF ~r.ok THEN r
                         ELSE Read(Obj(Spread(
                                     [key \in {IdTagOf(item)} |->
                                        IF hasPlainIds THEN n.val ELSE item.layouts[idx][1].label],
                                     r.val.f)),
                                   r.encoded)))

\* for (const item of layout) try { (item.omit ? {} : decoded)[item.name] = ... } catch ...
deserializeProper(items, encoded, i, decoded) ==
  IF i > Len(items) THEN Read(Obj(decoded), encoded)
  ELSE LET item == items[i]
       IN Let(deserializeItem(item, encoded), LAMBDA r :
          IF ~r.ok THEN Prefixed(r, item.name)
          ELSE deserializeProper(items, r.encoded, i + 1,
                                 IF IsOmitted(item) THEN decoded
                                 ELSE Spread(decoded, [key \in {item.name} |-> r.val])))

internalDeserialize(lay, encoded) ==
  IF ~isProper(lay) THEN deserializeItem(lay, encoded)
  ELSE deserializeProper(lay.proper, encoded, 1, EmptyObj)

\* a deserialize that tolerates bytes left over after the layout was decoded
consumedAnything(encoded) == TRUE

\* the check that ends deserialize when consumeAll is set
consumedAll(encoded) == encoded.offset = encoded.end

\* export function deserialize(layout, bytes, consumeAll?), run on the store heap
deserializeOn(lay, bytes, consumeAll, heap) ==
  LET encoded == [bytes |-> bytes, offset |-> 0, end |-> Len(bytes), heap |-> heap]
  IN Let(internalDeserialize(lay, encoded), LAMBDA r :
     IF ~r.ok THEN WithHeap(r, heap)
     ELSE IF consumeAll /\ ~consumedAll(r.encoded) THEN WithHeap(Throw("ExcessBytes"), r.encoded.heap)
     ELSE [ok |-> TRUE, ret |-> r.val, bytesRead |-> r.encoded.offset, heap |-> r.encoded.heap])

\* the store of a process in which no fixed object was serialized yet
NoHeap == [c \in {} |-> <<>>]

\* deserialize(layout, bytes) in a fresh process
deserialize(lay, bytes) == deserializeOn(lay, bytes, TRUE, NoHeap)

(***************************************************************************)
(* setEndianness.ts                                                        *)
(***************************************************************************)
RECURSIVE setEndianness(_, _)
RECURSIVE setItemEndianness(_, _)

\* setItemEndianness that spreads the item last, so that the item's own attributes win
setItemEndiannessKeepingOwn(item, endianness) ==
  CASE item.binary \in {"uint", "int"} ->
         IF Has(item, "size") /\ item.size = 1 THEN item
         ELSE Spread([endianness |-> endianness], item)
    [] item.binary \in {"bytes", "array"} ->
         LET lay == IF Has(item, "layout")
                    THEN [layout |-> setEndianness(item.layout, endianness)]
                    ELSE EmptyObj
             lengthEndianness == IF Has(item, "lengthSize") /\ item.lengthSize # 1
                                 THEN [lengthEndianness |-> endianness]
                                 ELSE EmptyObj
         IN Spread(lengthEndianness, Spread(item, lay))
    [] item.binary = "switch" ->
         LET idEndianness == IF item.idSize # 1 THEN [idEndianness |-> endianness] ELSE EmptyObj
             layouts == [i \in 1..Len(item.layouts) |->
                           <<item.layouts[i][1], setEndianness(item.layouts[i][2], endianness)>>]
         IN Spread(idEndianness, Spread(item, [layouts |-> layouts]))

setItemEndianness(item, endianness) ==
  CASE item.binary \in {"uint", "int"} ->
         IF Has(item, "size") /\ item.size = 1 THEN item
         ELSE Spread(item, [endianness |-> endianness])
    [] item.binary \in {"bytes", "array"} ->
         LET lay == IF Has(item, "layout")
                    THEN [layout |-> setEndianness(item.layout, endianness)]
                    ELSE EmptyObj
             lengthEndianness == IF Has(item, "lengthSize") /\ item.lengthSize # 1
                                 THEN [lengthEndianness |-> endianness]
                                 ELSE EmptyObj
         IN Spread(Spread(item, lay), lengthEndianness)
    [] item.binary = "switch" ->
         LET idEndianness == IF item.idSize # 1 THEN [idEndianness |-> endianness] ELSE EmptyObj
             layouts == [i \in 1..Len(item.layouts) |->
                           <<item.layouts[i][1], setEndianness(item.layouts[i][2], endianness)>>]
         IN Spread(Spread(item, idEndianness), [layouts |-> layouts])

\* setEndianness that maps a proper layout from its second item on
setEndiannessSkippingFirst(lay, endianness) ==
  IF isItem(lay) THEN setItemEndianness(lay, endianness)
  ELSE Proper([i \in 1..(Len(lay.proper) - 1) |->
                 setItemEndianness(lay.proper[i + 1], endianness)])

setEndianness(lay, endianness) ==
  IF isItem(lay) THEN setItemEndianness(lay, endianness)
  ELSE Proper([i \in 1..Len(lay.proper) |-> setItemEndianness(lay.proper[i], endianness)])

(***************************************************************************)
(* fixedDynamic.ts                                                         *)
(***************************************************************************)
Null == [t |-> "null"]

\* value[name] of JavaScript: undefined for a missing property and on a non-object
Get(val, name) == IF val.t = "obj" /\ Has(val.f, name) THEN val.f[name] ELSE Undef

\* value ?? {}
OrEmpty(val) == IF val = Undef \/ val = Null THEN Obj(EmptyObj) ELSE val

RECURSIVE filterItem(_, _)
RECURSIVE filterProperFrom(_, _, _)
RECURSIVE filterPairsFrom(_, _, _)
RECURSIVE internalFilterItemsOf(_, _)

\* proper.reduce(...) of internalFilterItemsOfProperLayout, from item i on
filterProperFrom(items, i, fixed) ==
  IF i > Len(items) THEN <<>>
  ELSE Let(filterItem(items[i], fixed), LAMBDA filtered :
          (IF filtered # Null THEN <<filtered>> ELSE <<>>) \o filterProperFrom(items, i + 1, fixed))

internalFilterItemsOfProperLayout(proper, fixed) == Proper(filterProperFrom(proper.proper, 1, fixed))

\* item.layouts.reduce(...) of the switch case, from pair i on
filterPairsFrom(pairs, i, fixed) ==
  IF i > Len(pairs) THEN <<>>
  ELSE Let(internalFilterItemsOfProperLayout(pairs[i][2], fixed), LAMBDA filteredItems :
          (IF Len(filteredItems.proper) > 0 THEN << <<pairs[i][1], filteredItems>> >> ELSE <<>>)
          \o filterPairsFrom(pairs, i + 1, fixed))

filterItem(item, fixed) ==
  LET custom == CustomOf(item)
      keep(isFixedItem) == IF (fixed /\ isFixedItem) \/ (~fixed /\ ~isFixedItem) THEN item ELSE Null
  IN CASE item.binary = "bytes" /\ Has(item, "layout") ->
            IF custom = Undef
            THEN IF isItem(item.layout) THEN filterItem(item.layout, fixed)
                 ELSE Let(internalFilterItemsOfProperLayout(item.layout, fixed), LAMBDA filteredItems :
                         IF Len(filteredItems.proper) > 0
                         THEN Spread(item, [layout |-> filteredItems])
                         ELSE Null)
            ELSE keep(~isFn(custom.from))
       [] item.binary \in {"int", "uint"} \/ (item.binary = "bytes" /\ ~Has(item, "layout")) ->
            keep(isPrimitiveType(custom) \/ isFixedPrimitiveConversion(custom))
       [] item.binary = "array" ->
            Let(internalFilterItemsOf(item.layout, fixed), LAMBDA filtered :
               IF filtered # Null THEN Spread(item, [layout |-> filtered]) ELSE Null)
       [] item.binary = "switch" ->
            Spread(item, [layouts |-> filterPairsFrom(item.layouts, 1, fixed)])

internalFilterItemsOf(lay, fixed) ==
  IF isProper(lay) THEN internalFilterItemsOfProperLayout(lay, fixed) ELSE filterItem(lay, fixed)

filterItemsOf(lay, fixed) == internalFilterItemsOf(lay, fixed)

fixedItemsOf(lay) == filterItemsOf(lay, TRUE)

dynamicItemsOf(lay) == filterItemsOf(lay, FALSE)

RECURSIVE internalAddFixedValuesItem(_, _)
RECURSIVE internalAddFixedValues(_, _)
RECURSIVE addFixedProperFrom(_, _, _, _)
RECURSIVE addFixedArrayFrom(_, _, _)

\* dynamicValue.map(element => internalAddFixedValues(item.layout, element)), from element i on
addFixedArrayFrom(item, elems, i) ==
  IF i > Len(elems) THEN Ret(Arr(<<>>))
  ELSE Let(internalAddFixedValues(item.layout, elems[i]), LAMBDA head :
          IF ~head.ok THEN head
          ELSE Let(addFixedArrayFrom(item, elems, i + 1), LAMBDA tail :
                  IF ~tail.ok THEN tail ELSE Ret(Arr(<<head.val>> \o tail.val.a))))

internalAddFixedValuesItem(item, dynamicValue) ==
  LET custom == CustomOf(item)
  IN CASE item.binary = "bytes" /\ Has(item, "layout") ->
            IF custom = Undef \/ ~isFn(custom.from)
            THEN internalAddFixedValues(item.layout,
                                        IF custom # Undef THEN custom.from ELSE dynamicValue)
            ELSE Ret(dynamicValue)
       [] item.binary \in {"int", "uint"} \/ (item.binary = "bytes" /\ ~Has(item, "layout")) ->
            Ret(IF IsOmitted(item) THEN Undef
                ELSE IF isPrimitiveType(custom) THEN custom
                ELSE IF isFixedPrimitiveConversion(custom) THEN custom.to
                ELSE dynamicValue)
       [] item.binary = "array" ->
            IF dynamicValue.t = "arr" THEN addFixedArrayFrom(item, dynamicValue.a, 1)
            ELSE Ret(Undef)
       [] item.binary = "switch" ->
            LET id == Get(dynamicValue, IdTagOf(item))
            IN Let(findIdLayoutPair(item, dynamicValue), LAMBDA found :
               IF found = 0 THEN Throw("TypeError")
               ELSE Let(internalAddFixedValues(item.layouts[found][2], dynamicValue), LAMBDA rest :
                       IF ~rest.ok THEN rest
                       ELSE Ret(Obj(Spread([key \in {IdTagOf(item)} |-> id], rest.val.f)))))

\* for (const item of layout) ..., from item i on, into ret
addFixedProperFrom(items, i, dynamicValues, ret) ==
  IF i > Len(items) THEN Ret(Obj(ret))
  ELSE Let(             internalAddFixedValuesItem(items[i],
                                                   OrEmpty(Get(dynamicValues, items[i].name))), LAMBDA fixedVals :
          IF ~fixedVals.ok THEN fixedVals
          ELSE addFixedProperFrom(items, i + 1, dynamicValues,
                                  IF fixedVals.val # Undef
                                  THEN Spread(ret, [key \in {items[i].name} |-> fixedVals.val])
                                  ELSE ret))

internalAddFixedValues(lay, dynamicValues) ==
  IF isItem(lay) THEN internalAddFixedValuesItem(lay, OrEmpty(dynamicValues))
  ELSE addFixedProperFrom(lay.proper, 1, OrEmpty(dynamicValues), EmptyObj)

addFixedValues(lay, dynamicValues) == internalAddFixedValues(lay, dynamicValues)

(***************************************************************************)
(* The discriminator builder (discriminate.ts): its structural summaries,  *)
(* its greedy choice of splits, and the classifier it compiles.            *)
(***************************************************************************)
\* size bounds [min, max] of a layout; inf when there is no upper bound
Bounds(min, max, inf) == [min |-> min, max |-> max, inf |-> inf]

AddBounds(a, b) == Bounds(a.min + b.min, a.max + b.max, a.inf \/ b.inf)

RECURSIVE sizeBoundsOf(_)
RECURSIVE sizeBoundsOfItems(_, _)
RECURSIVE sizeBoundsOfBranches(_, _)

sizeBoundsOfItems(items, i) ==
  IF i > Len(items) THEN Bounds(0, 0, FALSE)
  ELSE AddBounds(sizeBoundsOf(items[i]), sizeBoundsOfItems(items, i + 1))

\* the widest bounds that cover every branch from pair i on
sizeBoundsOfBranches(pairs, i) ==
  Let(sizeBoundsOf(pairs[i][2]), LAMBDA here :
     IF i = Len(pairs) THEN here
     ELSE Let(sizeBoundsOfBranches(pairs, i + 1), LAMBDA rest :
             Bounds(Min(here.min, rest.min), Max(here.max, rest.max), here.inf \/ rest.inf)))

sizeBoundsOf(lay) ==
  IF isProper(lay) THEN sizeBoundsOfItems(lay.proper, 1)
  ELSE LET custom == CustomOf(lay)
           prefix == IF Has(lay, "lengthSize") THEN lay.lengthSize ELSE 0
           exactly(n) == Bounds(prefix + n, prefix + n, FALSE)
       IN CASE lay.binary \in {"int", "uint"} -> exactly(lay.size)
            [] lay.binary = "bytes" /\ ~Has(lay, "layout") ->
                 IF isBytesType(custom) THEN exactly(Len(custom.b))
                 ELSE IF isFixedBytesConversion(custom) THEN exactly(Len(custom.from.b))
                 ELSE IF Has(lay, "size") THEN exactly(lay.size)
                 ELSE Bounds(prefix, 0, TRUE)
            [] lay.binary = "bytes" /\ Has(lay, "layout") ->
                 IF Has(lay, "size") THEN exactly(lay.size)
                 ELSE AddBounds(Bounds(prefix, prefix, FALSE), sizeBoundsOf(lay.layout))
            [] lay.binary = "array" ->
                 Let(sizeBoundsOf(lay.layout), LAMBDA elem :
                    IF Has(lay, "length")
                    THEN Bounds(lay.length * elem.min, lay.length * elem.max, elem.inf)
                    ELSE Bounds(prefix, prefix, elem.inf \/ elem.max > 0))
            [] lay.binary = "switch" ->
                 IF Len(lay.layouts) = 0 THEN Bounds(lay.idSize, lay.idSize, FALSE)
                 ELSE AddBounds(Bounds(lay.idSize, lay.idSize, FALSE),
                                sizeBoundsOfBranches(lay.layouts, 1))

\* the byte oracle of a layout: for each position from 0 the set of wire values
\* accepted there, up to the first position that is not reachable unambiguously
\* (open: the layout goes on after the positions listed)
AnyByte == Byte

Known(bytes, open) == [bytes |-> bytes, open |-> open]

Literals(b) == [i \in 1..Len(b) |-> {b[i]}]

\* the wire bytes of a number of the layout, AnyByte where it cannot be written
NumLiterals(val, size, endianness, signed) ==
  Let(serializeNum(val, size, [bytes |-> Rep(0, size), offset |-> 0], endianness, signed), LAMBDA w :
     IF w.ok THEN Literals(w.cursor.bytes) ELSE Rep(AnyByte, size))

RECURSIVE knownBytesOf(_)
RECURSIVE knownBytesOfItems(_, _)
RECURSIVE knownBytesOfBranches(_, _)
RECURSIVE RepeatKnown(_, _)

RepeatKnown(bytes, n) == IF n = 0 THEN <<>> ELSE bytes \o RepeatKnown(bytes, n - 1)

knownBytesOfItems(items, i) ==
  IF i > Len(items) THEN Known(<<>>, FALSE)
  ELSE Let(knownBytesOf(items[i]), LAMBDA here :
          IF here.open THEN here
          ELSE Let(knownBytesOfItems(items, i + 1), LAMBDA rest :
                  Known(here.bytes \o rest.bytes, rest.open)))

\* position by position, the values some branch from pair i on accepts
knownBytesOfBranches(pairs, i) ==
  Let(knownBytesOf(pairs[i][2]), LAMBDA here :
     IF i = Len(pairs) THEN here
     ELSE Let(knownBytesOfBranches(pairs, i + 1), LAMBDA rest :
          LET common == Min(Len(here.bytes), Len(rest.bytes))
          IN Known([p \in 1..common |-> here.bytes[p] \cup rest.bytes[p]],
                   here.open \/ rest.open \/ Len(here.bytes) # Len(rest.bytes))))

knownBytesOf(lay) ==
  IF isProper(lay) THEN knownBytesOfItems(lay.proper, 1)
  ELSE LET custom == CustomOf(lay)
           prefix == Rep(AnyByte, IF Has(lay, "lengthSize") THEN lay.lengthSize ELSE 0)
       IN CASE lay.binary \in {"int", "uint"} ->
                 LET fixed == IF isNumType(custom) THEN custom
                              ELSE IF isFixedUintConversion(custom) THEN custom.from
                              ELSE Undef
                 IN Known(IF fixed = Undef THEN Rep(AnyByte, lay.size)
                          ELSE NumLiterals(fixed, lay.size, EndiannessOf(lay, "endianness"),
                                           lay.binary = "int"),
                          FALSE)
            [] lay.binary = "bytes" /\ ~Has(lay, "layout") ->
                 IF isBytesType(custom) THEN Known(prefix \o Literals(custom.b), FALSE)
                 ELSE IF isFixedBytesConversion(custom)
                   THEN Known(prefix \o Literals(custom.from.b), FALSE)
                 ELSE IF Has(lay, "size") THEN Known(Rep(AnyByte, lay.size), FALSE)
                 ELSE Known(prefix, TRUE)
            [] lay.binary = "bytes" /\ Has(lay, "layout") ->
                 Let(knownBytesOf(lay.layout), LAMBDA nested :
                    IF Has(lay, "size")
                    THEN Known([p \in 1..lay.size |->
                                  IF p <= Len(nested.bytes) THEN nested.bytes[p] ELSE AnyByte], FALSE)
                    ELSE Known(prefix \o nested.bytes, nested.open))
            [] lay.binary = "array" ->
                 Let(knownBytesOf(lay.layout), LAMBDA elem :
                    IF ~Has(lay, "length") THEN Known(prefix, TRUE)
                    ELSE IF elem.open THEN (IF lay.length > 0 THEN elem ELSE Known(<<>>, FALSE))
                    ELSE Known(RepeatKnown(elem.bytes, lay.length), FALSE))
            [] lay.binary = "switch" ->
                 LET wire(i) == IF isConversionId(lay.layouts[i][1]) THEN lay.layouts[i][1].wire
                                ELSE lay.layouts[i][1]
                     idBytes(i) == NumLiterals(wire(i), lay.idSize,
                                               EndiannessOf(lay, "idEndianness"), FALSE)
                 IN Let(    [p \in 1..lay.idSize |->
                               UNION { idBytes(i)[p] : i \in 1..Len(lay.layouts) }], LAMBDA ids :
                    IF Len(lay.layouts) = 0 THEN Known(ids, FALSE)
                    ELSE Let(knownBytesOfBranches(lay.layouts, 1), LAMBDA branches :
                            Known(ids \o branches.bytes, branches.open)))

\* the structural summary of a candidate
summaryOf(lay) ==
  Let(sizeBoundsOf(lay), LAMBDA bounds :
     [min |-> bounds.min, max |-> bounds.max, inf |-> bounds.inf, known |-> knownBytesOf(lay).bytes])

\* a split of a candidate set: by the length of the buffer, or by the byte at a position
SizeSplit == [by |-> "size", at |-> 0]

ByteSplit(p) == [by |-> "byte", at |-> p]

Absent == 256

\* the candidates of cands compatible with outcome x of a split: a buffer length,
\* or the value of the byte at the position (Absent when the buffer ends before it)
Compatible(summary, split, x) ==
  IF split.by = "size" THEN summary.min <= x /\ (summary.inf \/ x <= summary.max)
  ELSE IF x = Absent THEN summary.min <= split.at
  ELSE /\ summary.inf \/ split.at < summary.max
       /\ split.at < Len(summary.known) => x \in summary.known[split.at + 1]

Narrow(summaries, cands, split, x) == { c \in cands : Compatible(summaries[c], split, x) }

\* the outcomes a split can have on the candidates
Outcomes(summaries, cands, split) ==
  IF split.by = "size"
  THEN 0..(1 + Max(0, CHOOSE m \in { summaries[c].max : c \in cands } :
                        \A c \in cands : summaries[c].max <= m))
  ELSE Byte \cup {Absent}

\* the candidates left in the worst case
Worst(summaries, cands, split) ==
  LET left == { Cardinality(Narrow(summaries, cands, split, x)) :
                  x \in Outcomes(summaries, cands, split) }
  IN CHOOSE w \in left : \A v \in left : v <= w

\* the positions at which some candidate requires a literal
LiteralPositions(summaries, cands) ==
  { p \in 0..(Max(0, CHOOSE m \in { Len(summaries[c].known) : c \in cands } :
                       \A c \in cands : Len(summaries[c].known) <= m) - 1) :
      \E c \in cands : p < Len(summaries[c].known) /\ summaries[c].known[p + 1] # AnyByte }

\* the split of largest guaranteed reduction: among equals the byte at the
\* smallest position, then the size
BestSplit(summaries, cands) ==
  LET splits == { ByteSplit(p) : p \in LiteralPositions(summaries, cands) } \cup {SizeSplit}
      worst(sp) == Worst(summaries, cands, sp)
      before(a, b) == \/ worst(a) < worst(b)
                      \/ /\ worst(a) = worst(b)
                         /\ \/ a.by = "byte" /\ b.by = "size"
                            \/ a.by = "byte" /\ b.by = "byte" /\ a.at < b.at
  IN CHOOSE sp \in splits : \A other \in splits \ {sp} : before(sp, other)

\* every leaf of the decision tree under cands holds at most one candidate
RECURSIVE Isolating(_, _)
Isolating(summaries, cands) ==
  \/ Cardinality(cands) <= 1
  \/ Let(BestSplit(summaries, cands), LAMBDA split :
        /\ Worst(summaries, cands, split) < Cardinality(cands)
        /\ \A part \in { Narrow(summaries, cands, split, x) :
                           x \in Outcomes(summaries, cands, split) } :
             Isolating(summaries, part))

NoMatch == [none |-> TRUE, index |-> 0]

Match(c) == [none |-> FALSE, index |-> c - 1]

\* the walk of the compiled decision tree on a buffer
RECURSIVE discriminate(_, _, _)
discriminate(summaries, cands, bytes) ==
  IF cands = {} THEN NoMatch
  ELSE IF Cardinality(cands) = 1 THEN Match(CHOOSE c \in cands : TRUE)
  ELSE Let(BestSplit(summaries, cands), LAMBDA split :
       LET x == IF split.by = "size" THEN Len(bytes)
                ELSE IF split.at < Len(bytes) THEN bytes[split.at + 1]
                ELSE Absent
       IN IF Worst(summaries, cands, split) >= Cardinality(cands) THEN NoMatch
          ELSE discriminate(summaries, Narrow(summaries, cands, split, x), bytes))

\* buildDiscriminator(layouts): the summaries the classifier works on, or an
\* error when the candidates cannot be told apart
buildDiscriminator(layouts) ==
  Let([c \in 1..Len(layouts) |-> summaryOf(layouts[c])], LAMBDA summaries :
     IF Len(layouts) = 0 \/ ~Isolating(summaries, 1..Len(layouts)) THEN Throw("MalformedLayout")
     ELSE [ok |-> TRUE, summaries |-> summaries])

\* the compiled classifier applied to a buffer
classify(built, bytes) == discriminate(built.summaries, 1..Len(built.summaries), bytes)

(***************************************************************************)
(* items.ts: optionItem                                                    *)
(***************************************************************************)
\* customizableBytes(base, spec) for a spec that is a layout
customizableBytes(base, spec) == Spread(Spread(base, [binary |-> "bytes"]), [layout |-> spec])

baseOptionItem(someType) ==
  [binary |-> "switch", idSize |-> 1, idTag |-> "isSome",
   layouts |-> << <<ConvId(0, Bool(FALSE)), Proper(<<>>)>>,
                  <<ConvId(1, Bool(TRUE)),
                    Proper(<<customizableBytes([name |-> "value"], someType)>>)>> >>]

optionItem(optVal) ==
  [binary |-> "bytes", layout |-> baseOptionItem(optVal), custom |-> Conv("option")]

(***************************************************************************)
(* The layouts the scenarios draw from: every variant of every item kind,  *)
(* alone and inside containers, and the values of each layout.             *)
(***************************************************************************)
U8 == [binary |-> "uint", size |-> 1]

EndiannessOptions == {EmptyObj, [endianness |-> "little"]}

NumCustomOptions ==
  { EmptyObj,
    [custom |-> Num(1)],
    [custom |-> Num(1), omit |-> TRUE],
    [custom |-> [from |-> Num(2), to |-> Str("two")]],
    [custom |-> Conv("enum")] }

NumItems ==
  { Spread(Spread([binary |-> b, size |-> sz], e), c) :
      b \in {"uint", "int"}, sz \in 1..MaxSize, e \in EndiannessOptions, c \in NumCustomOptions }
  \cup { Spread(U8, [custom |-> Conv("bool")]) }

BytesShapes ==
  { EmptyObj, [size |-> 2], [lengthSize |-> 1],
    [lengthSize |-> 2, lengthEndianness |-> "little"] }

BytesCustomOptions ==
  { EmptyObj,
    [custom |-> Bytes(<<0, 42>>)],
    [custom |-> Bytes(<<0, 42>>), omit |-> TRUE],
    [custom |-> [from |-> Bytes(<<1, 1>>), to |-> Str("magic")]],
    [custom |-> Conv("utf8")] }

PureBytesItems ==
  { Spread(Spread([binary |-> "bytes"], sh), c) : sh \in BytesShapes, c \in BytesCustomOptions }

LeafItems == NumItems \cup PureBytesItems

\* the layouts put inside containers
SmallSwitch ==
  [binary |-> "switch", idSize |-> 1,
   layouts |-> << <<PlainId(1), Proper(<<Named("x", U8)>>)>>,
                  <<PlainId(4), Proper(<<Named("y", [binary |-> "bytes", lengthSize |-> 1])>>)>> >>]

SizedNested ==
  { U8,
    Proper(<<Named("x", [binary |-> "uint", size |-> 2, endianness |-> "little"])>>),
    Proper(<<Named("x", [binary |-> "uint", size |-> 1, custom |-> Num(1), omit |-> TRUE]),
             Named("y", [binary |-> "bytes", lengthSize |-> 1])>>),
    Proper(<<Named("x", [binary |-> "bytes", custom |-> Bytes(<<0, 42>>)]),
             Named("y", [binary |-> "uint", size |-> 1,
                         custom |-> [from |-> Num(2), to |-> Str("two")]])>>),
    [binary |-> "bytes", lengthSize |-> 1, custom |-> Conv("utf8")],
    [binary |-> "array", length |-> 2, layout |-> U8],
    SmallSwitch }

GreedyNested ==
  { [binary |-> "bytes"],
    Proper(<<Named("x", U8), Named("y", [binary |-> "bytes"])>>),
    [binary |-> "array", layout |-> U8] }

NestedLayouts == SizedNested \cup GreedyNested \cup {Proper(<<>>)}

RECURSIVE ValuesOf(_)
RECURSIVE ValuesOfItem(_)
RECURSIVE ObjectsOf(_, _)
RECURSIVE ArraysOf(_, _)

\* the byte arrays a value holds: one of every length, and a second one of length 1
BytesOfLen(n) == [i \in 1..n |-> i]

BytesValues == { Bytes(BytesOfLen(n)) : n \in 0..MaxBytesLen } \cup { Bytes(<<255>>) }

NumValues(item) ==
  LET kind == IF item.size > numberMaxSize THEN "bigint" ELSE "number"
  IN IF item.binary = "uint"
     THEN { NumOf(kind, FALSE, <<1>>), NumOf(kind, FALSE, Rep(255, item.size)) }
     ELSE { NumOf(kind, TRUE, <<2>>), NumOf(kind, TRUE, Pow2(8 * item.size - 1)) }

\* the arrays of n elements drawn from elems: constant ones, and every one of two elements
ArraysOf(elems, n) ==
  IF n = 0 THEN { <<>> }
  ELSE IF n = 2 THEN { <<a, b>> : a \in elems, b \in elems }
  ELSE { [i \in 1..n |-> a] : a \in elems }

\* the objects over items i.. of a proper layout
ObjectsOf(items, i) ==
  IF i > Len(items) THEN { EmptyObj }
  ELSE IF IsOmitted(items[i]) THEN ObjectsOf(items, i + 1)
  ELSE { Spread([key \in {items[i].name} |-> v], rest) :
           v \in ValuesOfItem(items[i]), rest \in ObjectsOf(items, i + 1) }

ValuesOfItem(item) ==
  LET custom == CustomOf(item)
  IN CASE item.binary \in {"int", "uint"} ->
            IF isNumType(custom) THEN {custom}
            ELSE IF custom = Undef THEN NumValues(item)
            ELSE IF ~isFn(custom.from) THEN {custom.to}
            ELSE IF custom.from.id = "bool" THEN {Bool(TRUE), Bool(FALSE)}
            ELSE {Str(enumNames[i]) : i \in 1..Len(enumNames)}
       [] item.binary = "bytes" /\ ~Has(item, "layout") ->
            IF isBytesType(custom) THEN {custom}
            ELSE IF custom # Undef /\ ~isFn(custom.from) THEN {custom.to}
            ELSE LET raw == IF Has(item, "size")
                            THEN { Bytes([i \in 1..item.size |-> v]) : v \in {7, 255} }
                            ELSE BytesValues
                 IN IF custom = Undef THEN raw ELSE { Text(r.b) : r \in raw }
       [] item.binary = "bytes" /\ Has(item, "layout") ->
            IF custom = Undef THEN ValuesOf(item.layout)
            ELSE IF ~isFn(custom.from) THEN {custom.to}
            ELSE { ConvTo(custom.to.id, v).val : v \in ValuesOf(item.layout) }
       [] item.binary = "array" ->
            LET elems == ValuesOf(item.layout)
            IN { Arr(a) : a \in UNION { ArraysOf(elems, n) :
                            n \in IF Has(item, "length") THEN {item.length}
                                  ELSE 0..MaxArrayLen } }
       [] item.binary = "switch" ->
            UNION { { Obj(Spread(v.f, [key \in {IdTagOf(item)} |->
                                         IF isConversionId(item.layouts[i][1])
                                         THEN item.layouts[i][1].label
                                         ELSE item.layouts[i][1]])) :
                        v \in ValuesOf(item.layouts[i][2]) } :
                    i \in 1..Len(item.layouts) }

ValuesOf(lay) ==
  IF isItem(lay) THEN ValuesOfItem(lay)
  ELSE { Obj(f) : f \in ObjectsOf(lay.proper, 1) }

\* an item that consumes the rest of its chunk when read
RECURSIVE Greedy(_)
Greedy(lay) ==
  IF isProper(lay)
  THEN Len(lay.proper) > 0 /\ Greedy(lay.proper[Len(lay.proper)])
  ELSE CASE lay.binary = "array" -> ~Has(lay, "length") /\ ~Has(lay, "lengthSize")
         [] lay.binary = "bytes" ->
              /\ ~Has(lay, "size") /\ ~Has(lay, "lengthSize")
              /\ IF Has(lay, "layout") THEN Greedy(lay.layout)
                 ELSE ~isBytesType(CustomOf(lay)) /\ ~isFixedBytesConversion(CustomOf(lay))
         [] lay.binary = "switch" -> \E i \in 1..Len(lay.layouts) : Greedy(lay.layouts[i][2])
         [] OTHER -> FALSE

\* the declared size of a sized bytes item around a nested layout: the nested
\* layout's static size where it has one
SizeFor(nested) ==
  Let(calcStaticSize(nested), LAMBDA st : IF st.ok /\ ~st.isNull THEN st.size ELSE 2)

LayoutBytesShapes(nested) ==
  { EmptyObj, [size |-> SizeFor(nested)], [lengthSize |-> 1] }

LayoutBytesItems ==
  UNION { { Spread(customizableBytes(EmptyObj, nested), sh) : sh \in LayoutBytesShapes(nested) } :
          nested \in NestedLayouts }

\* bytes items around a nested layout with a fixed-object conversion
FixedObjectOf(nested) == CHOOSE v \in ValuesOf(nested) : TRUE

FixedObjectItems ==
  UNION { { Spread(Spread(customizableBytes(EmptyObj, nested), sh),
                   [custom |-> [to |-> Str("fixedObject"), from |-> FixedObjectOf(nested)]]) :
              sh \in { EmptyObj, [lengthSize |-> 1],
                        [size |-> Len(serialize(nested, FixedObjectOf(nested), Undef).ret.b)] } } :
          nested \in SizedNested }

OptionItems ==
  { optionItem(U8), optionItem([binary |-> "bytes", lengthSize |-> 1]),
    Spread(optionItem(U8), [lengthSize |-> 1]) }

ArrayShapes ==
  { EmptyObj, [length |-> 2], [lengthSize |-> 1],
    [lengthSize |-> 2, lengthEndianness |-> "little"] }

ArrayItems ==
  { Spread([binary |-> "array", layout |-> nested], sh) :
      nested \in SizedNested, sh \in ArrayShapes }

SwitchItems ==
  { SmallSwitch,
    Spread(SmallSwitch, [idSize |-> 2, idEndianness |-> "little", idTag |-> "kind"]),
    [binary |-> "switch", idSize |-> 1, idTag |-> "kind",
     layouts |-> << <<ConvId(0, Str("none")), Proper(<<>>)>>,
                    <<ConvId(7, Str("some")), Proper(<<Named("x", U8)>>)>> >>],
    [binary |-> "switch", idSize |-> 2,
     layouts |-> << <<PlainId(200), Proper(<<Named("x", [binary |-> "bytes"])>>)>>,
                    <<PlainId(404), Proper(<<>>)>> >>],
    [binary |-> "switch", idSize |-> 1,
     layouts |-> << <<PlainId(0), Proper(<<>>)>>,
                    <<PlainId(1), Proper(<<Named("x", [binary |-> "uint", size |-> 2])>>)>> >>],
    [binary |-> "switch", idSize |-> 1,
     layouts |-> << <<PlainId(1), Proper(<<Named("x", U8)>>)>>,
                    <<PlainId(2), Proper(<<Named("y", U8)>>)>> >>] }

Items ==
  LeafItems \cup LayoutBytesItems \cup FixedObjectItems \cup OptionItems
            \cup ArrayItems \cup SwitchItems

\* every item alone, as the only item, and before and after other items
Before == Named("p", U8)

After == Named("q", [binary |-> "uint", size |-> 2])

PlacesOf(item) ==
  { item, Proper(<<Named("a", item)>>), Proper(<<Before, Named("a", item)>>) }
  \cup IF Greedy(item) THEN {}
       ELSE { Proper(<<Named("a", item), After>>),
              Proper(<<Before, Named("a", item), After>>) }

Layouts == UNION { PlacesOf(item) : item \in Items }

(***************************************************************************)
(* The calling program of the codec scenario: it sizes a layout, writes a  *)
(* value of the layout and reads the bytes back.                           *)
(***************************************************************************)
Record(name, r) == Spread(res, [key \in {name} |-> r])

Did(name) == Has(res, name)

Init ==
  /\ pc = "calcStaticSize"
  /\ layout \in Layouts
  /\ data \in ValuesOf(layout)
  /\ buf = <<>>
  /\ res = EmptyObj
  /\ store = NoHeap
  /\ target = defaultEndianness

CalcStaticSize ==
  /\ pc = "calcStaticSize"
  /\ res' = Record("calcStaticSize", calcStaticSize(layout))
  /\ pc' = "calcSize"
  /\ UNCHANGED <<layout, data, buf, store, target>>

CalcSize ==
  /\ pc = "calcSize"
  /\ res' = Record("calcSize", calcSize(layout, data))
  /\ pc' = "serialize"
  /\ UNCHANGED <<layout, data, buf, store, target>>

Serialize ==
  /\ pc = "serialize"
  /\ Let(serialize(layout, data, Undef), LAMBDA r :
        /\ res' = Record("serialize", r)
        /\ buf' = IF r.ok THEN r.ret.b ELSE buf
        /\ pc' = IF r.ok THEN "deserialize" ELSE "done")
  /\ UNCHANGED <<layout, data, store, target>>

Deserialize ==
  /\ pc = "deserialize"
  /\ Let(deserializeOn(layout, buf, TRUE, store), LAMBDA r :
        /\ res' = Record("deserialize", [ok |-> r.ok, ret |-> IF r.ok THEN r.ret ELSE Undef,
                                         err |-> IF r.ok THEN "" ELSE r.err,
                                         path |-> IF r.ok THEN <<>> ELSE r.path])
        /\ store' = r.heap
        /\ pc' = IF r.ok THEN "filter" ELSE "done")
  /\ UNCHANGED <<layout, data, buf, target>>

\* the caller splits the layout into its fixed and its dynamic items
FilterItems ==
  /\ pc = "filter"
  /\ res' = Spread(res, [fixedItemsOf |-> fixedItemsOf(layout),
                         dynamicItemsOf |-> dynamicItemsOf(layout)])
  /\ pc' = "addFixedValues"
  /\ UNCHANGED <<layout, data, buf, store, target>>

\* the value restricted to the fields of a filtered layout
RECURSIVE project(_, _)
RECURSIVE projectProperFrom(_, _, _)

projectProperFrom(val, items, i) ==
  IF i > Len(items) THEN EmptyObj
  ELSE Let(projectProperFrom(val, items, i + 1), LAMBDA rest :
       LET item == items[i]
       IN IF Has(item, "name") /\ val.t = "obj" /\ Has(val.f, item.name)
          THEN Spread([key \in {item.name} |-> project(val.f[item.name], item)], rest)
          ELSE rest)

project(val, filtered) ==
  IF filtered = Null THEN Undef
  ELSE IF isProper(filtered) THEN Obj(projectProperFrom(val, filtered.proper, 1))
  ELSE CASE filtered.binary = "bytes" /\ Has(filtered, "layout") /\ ~Has(filtered, "custom") ->
              project(val, filtered.layout)
         [] filtered.binary = "array" /\ val.t = "arr" ->
              Arr([i \in 1..Len(val.a) |-> project(val.a[i], filtered.layout)])
         [] filtered.binary = "switch" /\ val.t = "obj" ->
              Let(findIdLayoutPair(filtered, val), LAMBDA found :
              LET id == [key \in {IdTagOf(filtered)} |-> Get(val, IdTagOf(filtered))]
              IN IF found = 0 THEN Obj(id)
                 ELSE Obj(Spread(project(val, filtered.layouts[found][2]).f, id)))
         [] OTHER -> val

\* the caller rebuilds the value it read from its dynamic fields
AddFixedValues ==
  /\ pc = "addFixedValues"
  /\ res' = Record("addFixedValues",
                   addFixedValues(layout, project(res.deserialize.ret, res.dynamicItemsOf)))
  /\ pc' = "done"
  /\ UNCHANGED <<layout, data, buf, store, target>>

Next == CalcStaticSize \/ CalcSize \/ Serialize \/ Deserialize \/ FilterItems \/ AddFixedValues

Spec == Init /\ [][Next]_vars

\* a value without its undefined properties: { a: undefined } and { } are equal values
RECURSIVE Norm(_)
Norm(val) ==
  CASE val.t = "obj" ->
         Obj([key \in { k \in DOMAIN val.f : val.f[k] # Undef } |-> Norm(val.f[key])])
    [] val.t = "arr" -> Arr([i \in 1..Len(val.a) |-> Norm(val.a[i])])
    [] OTHER -> val

SameValue(a, b) == Norm(a) = Norm(b)

(***************************************************************************)
(* Properties of the codec scenario.                                       *)
(***************************************************************************)

\* C1 (round trip): whenever the caller has written a value of a well-formed
\* layout and read the bytes back, the read succeeded and returned a value
\* equal to the one written, wherever the item sits in the layout.
RoundTrip ==
  Did("deserialize") => res.deserialize.ok /\ SameValue(res.deserialize.ret, data)

\* C2 (length agreement): whenever serialize, given no buffer, has returned,
\* calcSize of the same layout and value returned too, the returned byte array
\* has exactly that length, and the write cursor ended exactly at that length.
LengthAgreement ==
  (Did("serialize") /\ res.serialize.ok) =>
     /\ res.calcSize.ok
     /\ Len(res.serialize.ret.b) = res.calcSize.size
     /\ res.serialize.cursor.offset = res.calcSize.size

\* a value whose size depends on its data was written: a length-prefixed field of
\* two bytes between two other fields
LengthAgreementWitness ==
  /\ Did("serialize") /\ res.serialize.ok
  /\ res.calcStaticSize.ok /\ res.calcStaticSize.isNull
  /\ isProper(layout) /\ Len(layout.proper) = 3
  /\ Has(layout.proper[2], "lengthSize")
  /\ Len(buf) >= 6

\* C4 (static implies data): whenever calcStaticSize returned a number for the
\* layout and serialize accepted the value, calcSize of the layout and the value
\* returned that same number.
StaticImpliesData ==
  (Did("serialize") /\ res.serialize.ok /\ res.calcStaticSize.ok /\ ~res.calcStaticSize.isNull) =>
     res.calcSize.ok /\ res.calcSize.size = res.calcStaticSize.size

\* C5 (partition completeness): whenever the caller has restricted the value
\* deserialize returned to the fields of dynamicItemsOf(layout) and passed it to
\* addFixedValues, addFixedValues returned a value equal to the one deserialize
\* returned.
PartitionComplete ==
  Did("addFixedValues") =>
     res.addFixedValues.ok /\ SameValue(res.addFixedValues.val, res.deserialize.ret)

(***************************************************************************)
(* The numeric scenario: the caller writes a number through a numeric item *)
(* of every size, and reads it back.                                       *)
(***************************************************************************)
NumericLayouts ==
  { Spread([binary |-> b, size |-> sz], e) :
      b \in {"uint", "int"}, sz \in 1..MaxNumSize, e \in EndiannessOptions }

\* 0, 1 and, around every byte width, 2^(8k) - 1, 2^(8k), 2^(8k-1) - 1, 2^(8k-1), 2^(8k-1) + 1
Magnitudes ==
  { <<>>, <<1>> }
  \cup UNION { { Rep(255, k), Pow2(8 * k), Rep(255, k - 1) \o <<127>>, Pow2(8 * k - 1),
                 Inc(Pow2(8 * k - 1)) } : k \in 1..(MaxNumSize + 1) }

\* the integers a JS number holds exactly: below 2^48, or a power of two
IsExactNumber(mag) ==
  Len(Trim(mag)) <= numberMaxSize \/ \E k \in 1..(MaxNumSize + 1) : mag \in {Pow2(8 * k), Pow2(8 * k - 1)}

NumInputs ==
  { NumOf("bigint", neg, mag) : neg \in BOOLEAN, mag \in Magnitudes }
  \cup { NumOf("number", neg, mag) : neg \in BOOLEAN, mag \in { m \in Magnitudes : IsExactNumber(m) } }
  \cup { Half(0), Half(1), Half(-1), Half(255), Half(-128) }

InitNum ==
  /\ pc = "calcStaticSize"
  /\ layout \in NumericLayouts
  /\ data \in NumInputs
  /\ buf = <<>>
  /\ res = EmptyObj
  /\ store = NoHeap
  /\ target = defaultEndianness

SpecNum == InitNum /\ [][Next]_vars

\* v lies in the range of a numeric item: [0, 2^(8s)) unsigned, [-2^(8s-1), 2^(8s-1)) signed
InRange(v, item) ==
  IF item.binary = "uint"
  THEN ~v.neg /\ DigitsLess(v.mag, Pow2(8 * item.size))
  ELSE IF v.neg THEN ~DigitsLess(Pow2(8 * item.size - 1), v.mag)
       ELSE DigitsLess(v.mag, Pow2(8 * item.size - 1))

\* v is a bigint, or the item is at most numberMaxSize bytes wide, or -2^48 <= v < 2^48
SafelyConvertible(v, item) ==
  \/ v.k = "bigint"
  \/ item.size <= numberMaxSize
  \/ DigitsLess(v.mag, Pow2(8 * numberMaxSize))
  \/ (v.neg /\ v.mag = Pow2(8 * numberMaxSize))

\* C3 as stated (range enforcement): whenever the caller has passed a number
\* to serialize through a numeric item, serialize returned exactly if the
\* number is an integer in the range of the item.
RangeEnforced ==
  Did("serialize") => (res.serialize.ok <=> (~data.frac /\ InRange(data, layout)))

\* C3 as the code has it: whenever the caller has passed a number to serialize
\* through a numeric item, serialize returned exactly if the number is an
\* integer in the range of the item and, when it is a JS number written through
\* an item wider than numberMaxSize bytes, lies in [-2^48, 2^48).
RangeEnforcedSafely ==
  Did("serialize") =>
     (res.serialize.ok <=> (~data.frac /\ InRange(data, layout) /\ SafelyConvertible(data, layout)))

\* the JS number 2^48, in range of a uint of 7 bytes, was rejected
RangeEnforcedSafelyWitness ==
  /\ Did("serialize") /\ ~res.serialize.ok
  /\ layout.binary = "uint" /\ layout.size = numberMaxSize + 1
  /\ data = NumOf("number", FALSE, Pow2(8 * numberMaxSize))

(***************************************************************************)
(* The endianness scenario: the caller sets the endianness of a layout,    *)
(* and sets it again on the result.                                        *)
(***************************************************************************)
InitEnd ==
  /\ pc = "setEndianness"
  /\ layout \in Layouts
  /\ data = Undef
  /\ buf = <<>>
  /\ res = EmptyObj
  /\ store = NoHeap
  /\ target \in {"little", "big"}

SetEndianness ==
  /\ pc = "setEndianness"
  /\ res' = Record("setEndianness", setEndianness(layout, target))
  /\ pc' = "setEndiannessAgain"
  /\ UNCHANGED <<layout, data, buf, store, target>>

SetEndiannessAgain ==
  /\ pc = "setEndiannessAgain"
  /\ res' = Record("setEndiannessAgain", setEndianness(res.setEndianness, target))
  /\ pc' = "done"
  /\ UNCHANGED <<layout, data, buf, store, target>>

NextEnd == SetEndianness \/ SetEndiannessAgain

SpecEnd == InitEnd /\ [][NextEnd]_vars

\* C6 (endianness idempotence): whenever the caller has set the endianness of
\* a layout and set the same endianness again on the result, the second result
\* is structurally equal to the first.
EndiannessIdempotent ==
  Did("setEndiannessAgain") => res.setEndiannessAgain = res.setEndianness

\* the second call was made on a layout that the first call changed at a nested level
EndiannessIdempotentWitness ==
  /\ Did("setEndiannessAgain")
  /\ res.setEndianness # layout
  /\ isProper(layout) /\ Len(layout.proper) = 3
  /\ layout.proper[2].binary = "switch"
  /\ target = "little"

\* the attributes other than the byte order of a item are those of the original
RECURSIVE ByteOrderOnly(_, _, _)

SameExcept(orig, result, added, nested) ==
  /\ DOMAIN result = DOMAIN orig \cup added
  /\ \A key \in DOMAIN orig \ (added \cup nested) : result[key] = orig[key]

ByteOrderOnlyItem(orig, result, e) ==
  CASE orig.binary \in {"uint", "int"} ->
         IF orig.size > 1
         THEN SameExcept(orig, result, {"endianness"}, {}) /\ result.endianness = e
         ELSE result = orig
    [] orig.binary \in {"bytes", "array"} ->
         /\ IF Has(orig, "lengthSize") /\ orig.lengthSize > 1
            THEN SameExcept(orig, result, {"lengthEndianness"}, {"layout"})
                 /\ result.lengthEndianness = e
            ELSE SameExcept(orig, result, {}, {"layout"})
         /\ Has(orig, "layout") => ByteOrderOnly(orig.layout, result.layout, e)
    [] orig.binary = "switch" ->
         /\ IF orig.idSize > 1
            THEN SameExcept(orig, result, {"idEndianness"}, {"layouts"}) /\ result.idEndianness = e
            ELSE SameExcept(orig, result, {}, {"layouts"})
         /\ Len(result.layouts) = Len(orig.layouts)
         /\ \A i \in 1..Len(orig.layouts) :
              /\ result.layouts[i][1] = orig.layouts[i][1]
              /\ ByteOrderOnly(orig.layouts[i][2], result.layouts[i][2], e)

ByteOrderOnly(orig, result, e) ==
  IF isProper(orig)
  THEN /\ isProper(result) /\ Len(result.proper) = Len(orig.proper)
       /\ \A i \in 1..Len(orig.proper) : ByteOrderOnlyItem(orig.proper[i], result.proper[i], e)
  ELSE isItem(result) /\ ByteOrderOnlyItem(orig, result, e)

\* C7: whenever the caller has set the endianness of a layout, the result
\* differs from the layout only in byte-order attributes: at every depth each
\* numeric, length prefix and switch id wider than one byte carries the target
\* endianness, those one byte wide gained no attribute, every other attribute
\* is the layout's, and the layout the caller holds is the one it passed.
OnlyByteOrderChanged ==
  Did("setEndianness") => ByteOrderOnly(layout, res.setEndianness, target)

\* the endianness was set on a layout with a two-byte length prefix around a
\* nested layout whose numeric item said "little", and the target was "big"
OnlyByteOrderChangedWitness ==
  /\ Did("setEndianness") /\ target = "big"
  /\ isProper(layout) /\ Len(layout.proper) = 3
  /\ layout.proper[2].binary = "array"
  /\ Has(layout.proper[2], "lengthSize") /\ layout.proper[2].lengthSize = 2
  /\ isProper(layout.proper[2].layout)
  /\ res.setEndianness.proper[2].lengthEndianness = "big"
  /\ res.setEndianness.proper[2].layout.proper[1].endianness = "big"
  /\ layout.proper[2].layout.proper[1].endianness = "little"

(***************************************************************************)
(* The scenario of a boundless item in the interior of a proper layout.    *)
(***************************************************************************)
\* bytes without size and lengthSize, arrays without length and lengthSize
InteriorBoundless ==
  { [binary |-> "bytes"],
    [binary |-> "bytes", custom |-> Conv("utf8")],
    [binary |-> "bytes", custom |-> Bytes(<<0, 42>>)],
    [binary |-> "bytes", layout |-> Proper(<<Named("x", U8)>>)],
    [binary |-> "bytes", layout |-> [binary |-> "bytes"]],
    [binary |-> "array", layout |-> U8],
    [binary |-> "array", layout |-> Proper(<<Named("x", [binary |-> "uint", size |-> 2])>>)] }

\* the items after it that read at least one byte, and those that may read none
ReadingFollowers ==
  { Named("q", U8), Named("q", [binary |-> "bytes", lengthSize |-> 1]),
    Named("q", [binary |-> "uint", size |-> 1, custom |-> Num(1), omit |-> TRUE]) }

IdleFollowers == { Named("q", [binary |-> "bytes"]), Named("q", [binary |-> "array", layout |-> U8]) }

InteriorBoundlessLayouts ==
  UNION { { Proper(<<Named("a", item), after>>),
            Proper(<<Before, Named("a", item), after>>),
            Proper(<<Named("a", item), after, Named("r", U8)>>) } :
          item \in InteriorBoundless, after \in ReadingFollowers \cup IdleFollowers }

InitBoundless ==
  /\ pc = "calcStaticSize"
  /\ layout \in InteriorBoundlessLayouts
  /\ data \in ValuesOf(layout)
  /\ buf = <<>>
  /\ res = EmptyObj
  /\ store = NoHeap
  /\ target = defaultEndianness

SpecBoundless == InitBoundless /\ [][Next]_vars

\* an item that consumes the rest of the buffer is followed by one that reads a byte
StarvesLaterItem ==
  \E i \in 1..Len(layout.proper) :
     /\ Greedy(layout.proper[i])
     /\ \E j \in (i + 1)..Len(layout.proper) :
          layout.proper[j] \in ReadingFollowers \cup {Named("r", U8)}

\* no item before the last consumes the rest of the buffer
NoInteriorGreedy == \A i \in 1..(Len(layout.proper) - 1) : ~Greedy(layout.proper[i])

DiscA ==
  Proper(<<Named("fixed", [binary |-> "uint", size |-> 2, custom |-> Num(0)]), Named("val", U8)>>)

DiscB ==
  Proper(<<Named("fixed", [binary |-> "bytes", custom |-> Bytes(<<1, 1>>)]), Named("val", U8)>>)

DiscC == [binary |-> "uint", size |-> 2]

ipV4Item == [binary |-> "array", length |-> 4, layout |-> U8]

ipV6Item == [binary |-> "array", length |-> 8, layout |-> [binary |-> "uint", size |-> 2]]

Candidates ==
  { DiscA, DiscB, DiscC, ipV4Item, ipV6Item,
    [binary |-> "bytes", lengthSize |-> 1],
    [binary |-> "array", lengthSize |-> 1, layout |-> [binary |-> "uint", size |-> 2]],
    SmallSwitch,
    Proper(<<Named("k", [binary |-> "uint", size |-> 1, custom |-> Num(2)]),
             Named("rest", [binary |-> "bytes"])>>),
    Proper(<<Named("t", U8), Named("k", [binary |-> "uint", size |-> 1, custom |-> Num(1)])>>) }

CandidateLists ==
  { <<a, b>> : a \in Candidates, b \in Candidates } \cup { <<DiscA, DiscB, DiscC>> }

BufBytes == {0, 1, 2}

Buffers ==
  UNION { [1..n -> BufBytes] : n \in 0..MaxBufLen } \cup { Rep(0, 5), Rep(0, 16) }

InitDisc ==
  /\ pc = "buildDiscriminator"
  /\ layout \in CandidateLists
  /\ data = Undef
  /\ buf = <<>>
  /\ res = EmptyObj
  /\ store = NoHeap
  /\ target = defaultEndianness

BuildDiscriminator ==
  /\ pc = "buildDiscriminator"
  /\ Let(buildDiscriminator(layout), LAMBDA built :
        /\ res' = Record("buildDiscriminator", built)
        /\ pc' = IF built.ok THEN "classify" ELSE "done")
  /\ UNCHANGED <<layout, data, buf, store, target>>

Classify ==
  /\ pc = "classify"
  /\ \E bytes \in Buffers :
       /\ buf' = bytes
       /\ res' = Record("classify", classify(res.buildDiscriminator, bytes))
  /\ pc' = "deserializeEach"
  /\ UNCHANGED <<layout, data, store, target>>

\* the caller tries deserialize of every candidate on the buffer
DeserializeEach ==
  /\ pc = "deserializeEach"
  /\ res' = Record("deserializeEach",
                   [c \in 1..Len(layout) |->
                      Let(deserialize(layout[c], buf), LAMBDA r :
                         [ok |-> r.ok, err |-> IF r.ok THEN "" ELSE r.err])])
  /\ pc' = "done"
  /\ UNCHANGED <<layout, data, buf, store, target>>

NextDisc == BuildDiscriminator \/ Classify \/ DeserializeEach

SpecDisc == InitDisc /\ [][NextDisc]_vars

\* the candidates that read the buffer as one of their serializations
LegalFor == { c \in 1..Len(layout) : res.deserializeEach[c].ok }

StructurallyCompatible(summary, bytes) ==
  /\ summary.min <= Len(bytes) /\ (summary.inf \/ Len(bytes) <= summary.max)
  /\ \A p \in 1..Min(Len(bytes), Len(summary.known)) : bytes[p] \in summary.known[p]

CompatibleWith ==
  { c \in 1..Len(layout) : StructurallyCompatible(res.buildDiscriminator.summaries[c], buf) }

FixedObjectX1 == [to |-> Str("fixedObject"), from |-> Obj([x |-> Num(1)])]

ReadItems ==
  { U8,
    [binary |-> "uint", size |-> 2, endianness |-> "little"],
    [binary |-> "uint", size |-> 1, custom |-> Num(1)],
    [binary |-> "uint", size |-> 1, custom |-> Num(1), omit |-> TRUE],
    [binary |-> "uint", size |-> 1, custom |-> [from |-> Num(2), to |-> Str("two")]],
    [binary |-> "bytes", custom |-> Bytes(<<1, 1>>)],
    [binary |-> "bytes", custom |-> Bytes(<<1, 1>>), omit |-> TRUE],
    [binary |-> "bytes", custom |-> [from |-> Bytes(<<0, 2>>), to |-> Str("magic")]],
    [binary |-> "bytes", lengthSize |-> 1, custom |-> Bytes(<<1, 1>>)],
    [binary |-> "bytes", lengthSize |-> 1],
    [binary |-> "bytes", size |-> 2],
    [binary |-> "bytes"],
    [binary |-> "bytes", size |-> 2, layout |-> Proper(<<Named("x", U8), Named("y", U8)>>)],
    [binary |-> "bytes", size |-> 2, layout |-> U8],
    [binary |-> "bytes", size |-> 1, layout |-> [binary |-> "uint", size |-> 2]],
    [binary |-> "bytes", size |-> 1, layout |-> [binary |-> "bytes", custom |-> Bytes(<<1, 1>>)]],
    [binary |-> "bytes", size |-> 2, layout |-> [binary |-> "bytes"]],
    [binary |-> "bytes", lengthSize |-> 1, layout |-> Proper(<<Named("x", U8)>>)],
    [binary |-> "bytes", lengthSize |-> 1, layout |-> [binary |-> "bytes"]],
    [binary |-> "bytes", lengthSize |-> 1, layout |-> [binary |-> "array", layout |-> U8]],
    [binary |-> "bytes", lengthSize |-> 1,
     layout |-> [binary |-> "array", layout |-> [binary |-> "uint", size |-> 2]]],
    [binary |-> "bytes", layout |-> Proper(<<Named("x", U8)>>)],
    [binary |-> "bytes", layout |-> Proper(<<Named("x", U8)>>), custom |-> FixedObjectX1],
    [binary |-> "bytes", lengthSize |-> 1, layout |-> Proper(<<Named("x", U8)>>),
     custom |-> FixedObjectX1],
    [binary |-> "bytes", size |-> 1, layout |-> Proper(<<Named("x", U8)>>),
     custom |-> FixedObjectX1],
    [binary |-> "array", lengthSize |-> 1, layout |-> U8],
    [binary |-> "array", length |-> 2, layout |-> U8],
    [binary |-> "array", layout |-> [binary |-> "uint", size |-> 2]],
    SmallSwitch,
    [binary |-> "switch", idSize |-> 1, idTag |-> "kind",
     layouts |-> << <<ConvId(0, Str("none")), Proper(<<>>)>>,
                    <<ConvId(2, Str("some")), Proper(<<Named("x", U8)>>)>> >>] }

ReadLayouts == UNION { PlacesOf(item) : item \in ReadItems }

ReadBuffers == UNION { [1..n -> BufBytes] : n \in 0..MaxBufLen }

InitRead ==
  /\ pc = "deserializeAll"
  /\ layout \in ReadLayouts
  /\ data = Undef
  /\ buf \in ReadBuffers
  /\ res = EmptyObj
  /\ store = NoHeap
  /\ target = defaultEndianness

\* what the caller sees of a call of deserialize
Outcome(r) ==
  [ok |-> r.ok, ret |-> IF r.ok THEN r.ret ELSE Undef,
   bytesRead |-> IF r.ok THEN r.bytesRead ELSE 0, err |-> IF r.ok THEN "" ELSE r.err]

\* deserialize(layout, buf)
DeserializeAll ==
  /\ pc = "deserializeAll"
  /\ Let(deserializeOn(layout, buf, TRUE, store), LAMBDA r :
        /\ res' = Record("deserializeAll", Outcome(r))
        /\ store' = r.heap)
  /\ pc' = "deserializePrefix"
  /\ UNCHANGED <<layout, data, buf, target>>

\* deserialize(layout, buf, false)
DeserializePrefix ==
  /\ pc = "deserializePrefix"
  /\ Let(deserializeOn(layout, buf, FALSE, store), LAMBDA r :
        /\ res' = Record("deserializePrefix", Outcome(r))
        /\ store' = r.heap)
  /\ pc' = "done"
  /\ UNCHANGED <<layout, data, buf, target>>

NextRead == DeserializeAll \/ DeserializePrefix

SpecRead == InitRead /\ [][NextRead]_vars

\* the lengths n for which the layout reads the first n bytes of the buffer entirely
WholePrefixes == { n \in 0..Len(buf) : deserialize(layout, SubSeq(buf, 1, n)).ok }

\* C12 (consumeAll): whenever the caller has read a buffer with consumeAll set
\* and without, the call with consumeAll returned only with the final offset at
\* the length of the buffer and threw ExcessBytes when the layout was read and a
\* byte was left; the call without returned the value and the final offset, an
\* offset within the buffer, never threw ExcessBytes, and, on a layout without
\* an item that takes the rest of the buffer, did not throw when the layout
\* reads a prefix of the buffer entirely: it returned the length of that prefix.
TrailingBytesTolerated ==
  Did("deserializePrefix") =>
     /\ res.deserializeAll.ok => res.deserializeAll.bytesRead = Len(buf)
     /\ res.deserializePrefix.ok =>
          /\ 0 <= res.deserializePrefix.bytesRead /\ res.deserializePrefix.bytesRead <= Len(buf)
          /\ res.deserializePrefix.bytesRead < Len(buf)
               => ~res.deserializeAll.ok /\ res.deserializeAll.err = "ExcessBytes"
          /\ res.deserializePrefix.bytesRead = Len(buf)
               => res.deserializeAll.ok /\ res.deserializeAll.ret = res.deserializePrefix.ret
     /\ res.deserializePrefix.err # "ExcessBytes"
     /\ ~Greedy(layout) =>
          \A n \in WholePrefixes :
             res.deserializePrefix.ok /\ res.deserializePrefix.bytesRead = n

(***************************************************************************)
(* The scenario of constant items: the caller passes a value whose field   *)
(* for a constant item holds the constant, another value, or is missing,   *)
(* and reads back the bytes written, or those bytes with one byte changed. *)
(***************************************************************************)
\* custom is a naked constant, or a fixed conversion of a constant
IsConstantItem(item) ==
  /\ item.binary \in {"int", "uint", "bytes"} /\ ~Has(item, "layout")
  /\ isPrimitiveType(CustomOf(item)) \/ isFixedPrimitiveConversion(CustomOf(item))

ConstantItems == { item \in LeafItems : IsConstantItem(item) }

ConstantLayouts == UNION { PlacesOf(item) : item \in ConstantItems }

\* what a caller may put in the field of a constant item
SuppliedValues == { Num(7), Big(1), Bytes(<<9, 9>>), Bytes(<<9>>), Str("two") }

\* the values of a layout, and those values with the field a set to something else or removed
SuppliedFor(lay) ==
  IF isItem(lay) THEN ValuesOf(lay) \cup SuppliedValues \cup {Undef}
  ELSE UNION { { v, Obj([key \in DOMAIN v.f \ {"a"} |-> v.f[key]]) }
               \cup { Obj(Spread(v.f, [a |-> w])) : w \in SuppliedValues } :
               v \in ValuesOf(lay) }

InitConst ==
  /\ pc = "calcSize"
  /\ layout \in ConstantLayouts
  /\ data \in SuppliedFor(layout)
  /\ buf = <<>>
  /\ res = EmptyObj
  /\ store = NoHeap
  /\ target = defaultEndianness

\* the bytes written reach the reader with one byte changed
Garble ==
  /\ pc = "deserialize" /\ ~Did("garble")
  /\ \E i \in 1..Len(buf) :
       /\ buf' = [buf EXCEPT ![i] = (buf[i] + 1) % 256]
       /\ res' = Record("garble", i)
  /\ UNCHANGED <<pc, layout, data, store, target>>

NextConst == CalcSize \/ Serialize \/ Garble \/ Deserialize

SpecConst == InitConst /\ [][NextConst]_vars

\* the constant item of the layout, and where its bytes start
ConstantItem ==
  IF isItem(layout) THEN layout
  ELSE layout.proper[IF layout.proper[1].name = "a" THEN 1 ELSE 2]

\* the offset of the item a: behind the one byte of the item p, if there is one
StartOfA == IF isProper(layout) /\ layout.proper[1].name # "a" THEN 1 ELSE 0

ConstantStart ==
  StartOfA + (IF Has(ConstantItem, "lengthSize") THEN ConstantItem.lengthSize ELSE 0)

\* the constant of the item, and the bytes that encode it
ConstantOf(item) == IF isPrimitiveType(item.custom) THEN item.custom ELSE item.custom.from

ConstantBytes(item) ==
  IF item.binary = "bytes" THEN ConstantOf(item).b
  ELSE [i \in 1..item.size |->
          ByteOf(ConstantOf(item),
                 IF EndiannessOf(item, "endianness") = "big" THEN item.size - i ELSE i - 1)]

\* the bytes of a buffer at the place of the constant item
AtConstant(bytes) ==
  SubSeq(bytes, ConstantStart + 1, ConstantStart + Len(ConstantBytes(ConstantItem)))

\* the caller's value has a field for the constant item, and what it holds
FieldPresent == isItem(layout) \/ (data.t = "obj" /\ Has(data.f, "a"))

FieldValue == IF isItem(layout) THEN data ELSE Get(data, "a")

\* the value the caller supplied equals the constant
SuppliedConstant ==
  IF isNumType(ConstantOf(ConstantItem)) THEN LooseNumEq(ConstantOf(ConstantItem), FieldValue)
  ELSE FieldValue = ConstantOf(ConstantItem)

\* what deserialize returns for the constant item
DecodedConstant ==
  IF isPrimitiveType(ConstantItem.custom) THEN ConstantItem.custom ELSE ConstantItem.custom.to

\* what the reader finds on reading back, common to C13 as stated and as the code has it
ConstantsRead ==
  (Did("deserialize") /\ res.deserialize.ok) =>
     /\ AtConstant(buf) = ConstantBytes(ConstantItem)
     /\ isProper(layout) =>
          IF IsOmitted(ConstantItem) THEN ~Has(res.deserialize.ret.f, "a")
          ELSE Get(res.deserialize.ret, "a") = DecodedConstant

\* C13 as stated (constant items): whenever the caller has passed a value with
\* any value in the field of a constant item, or without that field when the
\* item is omitted, calcSize returned, serialize returned with the bytes of the
\* constant at the item's place, and a read that succeeded found the constant's
\* bytes there and left an omitted item out of the decoded object.
ConstantsWritten ==
  /\ (Did("calcSize") /\ (FieldPresent \/ IsOmitted(ConstantItem))) => res.calcSize.ok
  /\ (Did("serialize") /\ (FieldPresent \/ IsOmitted(ConstantItem))) =>
        res.serialize.ok /\ AtConstant(res.serialize.ret.b) = ConstantBytes(ConstantItem)
  /\ ConstantsRead

\* C13 as the code has it: calcSize returned exactly if the field is present or
\* the item omitted; serialize returned exactly if moreover the value supplied
\* for a naked constant that is not omitted equals the constant (the value is
\* ignored for an omitted constant and for a fixed conversion), and then wrote
\* the bytes of the constant at the item's place; a read that succeeded found
\* the constant's bytes there and left an omitted item out of the decoded object.
ConstantsChecked ==
  /\ Did("calcSize") => (res.calcSize.ok <=> (FieldPresent \/ IsOmitted(ConstantItem)))
  /\ Did("serialize") =>
       /\ res.serialize.ok <=>
            /\ FieldPresent \/ IsOmitted(ConstantItem)
            /\ (isPrimitiveType(ConstantItem.custom) /\ ~IsOmitted(ConstantItem)) => SuppliedConstant
       /\ res.serialize.ok => AtConstant(res.serialize.ret.b) = ConstantBytes(ConstantItem)
  /\ ConstantsRead
  /\ (Did("deserialize") /\ Did("garble")
        /\ res.garble > ConstantStart /\ res.garble <= ConstantStart + Len(ConstantBytes(ConstantItem)))
       => ~res.deserialize.ok

\* an omitted uint16 constant between two fields was written for a value that
\* holds 7 in its field, and a byte of the constant was changed before reading
ConstantsCheckedWitness ==
  /\ Did("deserialize") /\ ~res.deserialize.ok /\ Did("garble") /\ res.garble = 2
  /\ isProper(layout) /\ Len(layout.proper) = 3
  /\ ConstantItem.binary = "uint" /\ ConstantItem.size = 2 /\ IsOmitted(ConstantItem)
  /\ FieldValue = Num(7)
  /\ res.serialize.ok

(***************************************************************************)
(* The switch scenario: the caller writes a value through a switch item    *)
(* and reads back the bytes written, or those bytes with one byte changed. *)
(***************************************************************************)
SwitchLayouts == UNION { PlacesOf(item) : item \in SwitchItems }

InitSwitch ==
  /\ pc = "calcSize"
  /\ layout \in SwitchLayouts
  /\ data \in ValuesOf(layout)
  /\ buf = <<>>
  /\ res = EmptyObj
  /\ store = NoHeap
  /\ target = defaultEndianness

SpecSwitch == InitSwitch /\ [][NextConst]_vars

\* the wire number of pair i of a switch, what the decoded object shows for it,
\* and the bytes that encode the wire number
WireOf(item, i) ==
  IF isConversionId(item.layouts[i][1]) THEN item.layouts[i][1].wire ELSE item.layouts[i][1]

ShownFor(item, i) ==
  IF isConversionId(item.layouts[i][1]) THEN item.layouts[i][1].label ELSE item.layouts[i][1]

WireBytes(item, i) ==
  [k \in 1..item.idSize |->
     ByteOf(WireOf(item, i),
            IF EndiannessOf(item, "idEndianness") = "big" THEN item.idSize - k ELSE k - 1)]

\* the bytes of a buffer that hold the id of the switch, and those after them
IdBytes(bytes) == SubSeq(bytes, StartOfA + 1, StartOfA + ConstantItem.idSize)

AfterId(bytes) == SubSeq(bytes, StartOfA + ConstantItem.idSize + 1, Len(bytes))

\* the value of the switch item in the value deserialize returned
DecodedSwitch == IF isItem(layout) THEN res.deserialize.ret ELSE Get(res.deserialize.ret, "a")

\* C14 (switch dispatch): whenever serialize has written a value through a
\* switch item, the first idSize bytes of the item are the wire number of the
\* pair whose plain id or label equals data[idTag], and the bytes after them
\* are that pair's layout applied to the same data; whenever deserialize was
\* called, it threw UnknownSwitchId if no pair has the wire number read, and
\* otherwise a value it returned holds under idTag the plain id or label of the
\* pair with that wire number, together with exactly the fields that pair's
\* layout decodes from the bytes after the id.
SwitchDispatched ==
  LET item == ConstantItem
      pairs == 1..Len(item.layouts)
  IN /\ Did("serialize") =>
          /\ res.serialize.ok
          /\ \E i \in pairs :
               /\ ShownFor(item, i) = Get(FieldValue, IdTagOf(item))
               /\ IdBytes(res.serialize.ret.b) = WireBytes(item, i)
               /\ Let(serialize(item.layouts[i][2], FieldValue, Undef), LAMBDA branch :
                     /\ branch.ok
                     /\ SubSeq(AfterId(res.serialize.ret.b), 1, Len(branch.ret.b)) = branch.ret.b)
     /\ Did("deserialize") =>
          IF \A i \in pairs : WireBytes(item, i) # IdBytes(buf)
          THEN ~res.deserialize.ok /\ res.deserialize.err = "UnknownSwitchId"
          ELSE res.deserialize.ok =>
                 \E i \in pairs :
                    /\ WireBytes(item, i) = IdBytes(buf)
                    /\ Get(DecodedSwitch, IdTagOf(item)) = ShownFor(item, i)
                    /\ Let(deserializeOn(item.layouts[i][2], AfterId(buf), FALSE, NoHeap), LAMBDA branch :
                          /\ branch.ok
                          /\ DOMAIN DecodedSwitch.f = DOMAIN branch.ret.f \cup {IdTagOf(item)}
                          /\ \A key \in DOMAIN branch.ret.f : DecodedSwitch.f[key] = branch.ret.f[key])

\* a switch with labelled ids between two fields was written, and read back
\* with its id changed to a wire number of no pair
SwitchDispatchedWitness ==
  /\ Did("deserialize") /\ res.deserialize.err = "UnknownSwitchId"
  /\ Did("garble") /\ res.garble = StartOfA + 1
  /\ isProper(layout) /\ Len(layout.proper) = 3
  /\ isConversionId(ConstantItem.layouts[1][1])
  /\ Get(FieldValue, "kind") = Str("some")

(***************************************************************************)
(* The scenario of a caller's buffer: the caller allocates a buffer of at  *)
(* least the size of the value, filled with bytes of its own, has          *)
(* serialize write into it, and then writes the value without a buffer.    *)
(***************************************************************************)
\* the bytes beyond the size of the value that the caller's buffer may hold
Slack == {0, 2}

\* the caller's buffer of n bytes, filled with a byte no value of the catalogue writes
Filled(n) == Rep(170, n)

ProvidedFor(lay, val) ==
  Let(calcSize(lay, val), LAMBDA sized :
     { Filled((IF sized.ok THEN sized.size ELSE 0) + extra) : extra \in Slack })

InitInto ==
  /\ pc = "serializeInto"
  /\ layout \in Layouts
  /\ data \in ValuesOf(layout)
  /\ buf \in ProvidedFor(layout, data)
  /\ res = EmptyObj
  /\ store = NoHeap
  /\ target = defaultEndianness

\* serialize(layout, data, buf): the bytes are written into the caller's buffer
SerializeInto ==
  /\ pc = "serializeInto"
  /\ Let(serialize(layout, data, Bytes(buf)), LAMBDA r :
        /\ res' = Spread(res, [serializeInto |-> [ok |-> r.ok, ret |-> IF r.ok THEN r.ret ELSE Undef],
                               provided |-> buf,
                               written |-> IF r.ok THEN r.cursor.bytes ELSE buf])
        /\ buf' = IF r.ok THEN r.cursor.bytes ELSE buf)
  /\ pc' = "calcSize"
  /\ UNCHANGED <<layout, data, store, target>>

NextInto == SerializeInto \/ CalcSize \/ Serialize

SpecInto == InitInto /\ [][NextInto]_vars

\* C15 (serialize into a caller's buffer): whenever the caller has passed a
\* buffer of at least calcSize(layout, data) bytes to serialize, serialize
\* returned calcSize(layout, data), the buffer holds from its start the bytes
\* serialize returns without a buffer, and every byte of the buffer behind them
\* is what it was.
WrittenIntoBuffer ==
  (Did("serialize") /\ res.calcSize.ok /\ Len(res.provided) >= res.calcSize.size) =>
     /\ res.serializeInto.ok /\ res.serializeInto.ret = Num(res.calcSize.size)
     /\ res.serialize.ok
     /\ Len(res.written) = Len(res.provided)
     /\ SubSeq(res.written, 1, res.calcSize.size) = res.serialize.ret.b
     /\ \A i \in (res.calcSize.size + 1)..Len(res.provided) : res.written[i] = res.provided[i]

\* a value with a length-prefixed field between two others was written into a
\* buffer two bytes longer than the value
WrittenIntoBufferWitness ==
  /\ Did("serialize") /\ res.serializeInto.ok
  /\ Len(res.provided) = res.calcSize.size + 2
  /\ isProper(layout) /\ Len(layout.proper) = 3
  /\ Has(layout.proper[2], "lengthSize")
  /\ res.calcSize.size >= 6
  /\ SubSeq(res.written, res.calcSize.size + 1, Len(res.written)) = Filled(2)

(***************************************************************************)
(* The static scenario: the caller asks for the size of a layout without a *)
(* value: of every layout of the catalogue, of the layouts of the          *)
(* discrimination example, and of switches over every list of one to       *)
(* MaxBranches branches.                                                   *)
(***************************************************************************)
BranchLayouts ==
  { Proper(<<>>),
    Proper(<<Named("x", U8)>>),
    Proper(<<Named("y", U8)>>),
    Proper(<<Named("x", [binary |-> "uint", size |-> 2])>>),
    Proper(<<Named("x", [binary |-> "bytes"])>>),
    Proper(<<Named("x", [binary |-> "bytes", lengthSize |-> 1])>>) }

MaxBranches == 3

StaticSwitches ==
  { [binary |-> "switch", idSize |-> idSize,
     layouts |-> [i \in DOMAIN branches |-> <<PlainId(i), branches[i]>>]] :
      idSize \in {1, 2},
      branches \in UNION { [1..n -> BranchLayouts] : n \in 1..MaxBranches } }

StaticLayouts == Layouts \cup StaticSwitches \cup {DiscA, DiscB, DiscC}

InitStatic ==
  /\ pc = "calcStaticSize"
  /\ layout \in StaticLayouts
  /\ data = Undef
  /\ buf = <<>>
  /\ res = EmptyObj
  /\ store = NoHeap
  /\ target = defaultEndianness

NextStatic == CalcStaticSize

SpecStatic == InitStatic /\ [][NextStatic]_vars

\* the static sizes of the branches of a switch, as calcStaticSize reports them
BranchSizes(item) ==
  [i \in DOMAIN item.layouts |-> calcStaticSize(item.layouts[i][2])]

\* all branches have a known static size, and the same one
CommonSize(item) ==
  LET sizes == BranchSizes(item)
  IN /\ \A i \in DOMAIN sizes : sizes[i].ok /\ ~sizes[i].isNull
     /\ \A i, j \in DOMAIN sizes : sizes[i].size = sizes[j].size

RECURSIVE ContainsSwitch(_)
\* the layout has a switch item, at any depth
ContainsSwitch(lay) ==
  IF isProper(lay) THEN \E i \in DOMAIN lay.proper : ContainsSwitch(lay.proper[i])
  ELSE \/ lay.binary = "switch"
       \/ Has(lay, "layout") /\ ContainsSwitch(lay.layout)

\* a size is the set of the one number it is, or the empty set where the layout
\* does not determine it
RECURSIVE SumFrom(_, _)
SumFrom(sizes, i) == IF i > Len(sizes) THEN 0 ELSE sizes[i] + SumFrom(sizes, i + 1)

SumOf(sizes) ==
  IF \E i \in DOMAIN sizes : sizes[i] = {} THEN {}
  ELSE { SumFrom([i \in DOMAIN sizes |-> CHOOSE n \in sizes[i] : TRUE], 1) }

RECURSIVE SizeWithoutData(_)
\* the size a switch-free layout has without data: numeric size; declared size
\* of bytes; lengthSize + constant length of constant and fixed-conversion
\* bytes; lengthSize + size of a statically sized nested layout; length times
\* element size of a fixed-length array; the sum over the items of a layout
SizeWithoutData(lay) ==
  IF isProper(lay) THEN SumOf([i \in DOMAIN lay.proper |-> SizeWithoutData(lay.proper[i])])
  ELSE IF lay.binary \in {"uint", "int"} THEN {lay.size}
  ELSE IF lay.binary = "bytes"
    THEN LET lengthSize == IF Has(lay, "lengthSize") THEN lay.lengthSize ELSE 0
             custom == IF Has(lay, "custom") THEN lay.custom ELSE Undef
         IN IF Has(lay, "size") THEN {lay.size}
            ELSE IF isBytesType(custom) THEN {lengthSize + Len(custom.b)}
            ELSE IF custom # Undef /\ ~isFn(custom.from)
              THEN {lengthSize + (IF Has(lay, "layout")
                                  THEN Len(serialize(lay.layout, custom.from, Undef).ret.b)
                                  ELSE Len(custom.from.b))}
            ELSE IF Has(lay, "layout")
              THEN SumOf(<<{lengthSize}, SizeWithoutData(lay.layout)>>)
            ELSE {}
  ELSE IF lay.binary = "array" /\ Has(lay, "length")
    THEN { lay.length * element : element \in SizeWithoutData(lay.layout) }
  ELSE {}

\* C17 (static size of switch-free layouts): whenever calcStaticSize has
\* returned for a layout without a switch, it returned the sum of the sizes of
\* the items where every item has one without data, and null where one has
\* not; the layouts of the discrimination example give 3, 3 and 2.
SwitchFreeStaticSize ==
  (Did("calcStaticSize") /\ ~ContainsSwitch(layout)) =>
     /\ res.calcStaticSize.ok
     /\ res.calcStaticSize.isNull = (SizeWithoutData(layout) = {})
     /\ ~res.calcStaticSize.isNull => SizeWithoutData(layout) = {res.calcStaticSize.size}
     /\ layout \in {DiscA, DiscB} => res.calcStaticSize.size = 3
     /\ layout = DiscC => res.calcStaticSize.size = 2

\* a fixed-length array of two-byte elements between two numbers was sized
SwitchFreeStaticSizeWitness ==
  /\ Did("calcStaticSize") /\ ~ContainsSwitch(layout)
  /\ isProper(layout) /\ Len(layout.proper) = 3
  /\ layout.proper[2].binary = "array" /\ Has(layout.proper[2], "length")
  /\ ~res.calcStaticSize.isNull /\ res.calcStaticSize.size = 7

\* the item a is a bytes item with a nested layout and a fixed object conversion
FixedObjectAtA ==
  /\ ConstantItem.binary = "bytes" /\ Has(ConstantItem, "layout")
  /\ Has(ConstantItem, "custom") /\ ~isFn(ConstantItem.custom.from)

\* serialize(item.layout, custom.from)
SerializedFrom == serialize(ConstantItem.layout, ConstantItem.custom.from, Undef).ret.b

\* the region of the buffer the nested layout decodes: it starts behind the
\* length prefix and has the declared size, the size the prefix gives, or,
\* for an item with neither, the size of the nested layout
RegionStart ==
  StartOfA + (IF Has(ConstantItem, "lengthSize") THEN ConstantItem.lengthSize ELSE 0)

RegionLen ==
  IF Has(ConstantItem, "size") THEN ConstantItem.size
  ELSE IF Has(ConstantItem, "lengthSize")
    THEN (IF Len(buf) >= RegionStart THEN buf[RegionStart] ELSE 0)
  ELSE calcStaticSize(ConstantItem.layout).size

Region == SubSeq(buf, RegionStart + 1, RegionStart + RegionLen)

\* the bytes of the item q behind the item a
TailLen ==
  IF isProper(layout) /\ layout.proper[Len(layout.proper)].name = "q" THEN 2 ELSE 0

\* C18 (fixed-object conversion on decode): whenever the caller has read a
\* buffer through a layout whose item a is a bytes item with a nested layout
\* and a fixed object conversion, a call that returned gave custom.to for the
\* item and the region the nested layout decoded holds serialize(item.layout,
\* custom.from); and the call returned when the buffer holds the layout's other
\* items and the region holds those bytes, whatever the bytes outside the region.
FixedObjectDecoded ==
  (Did("deserializePrefix") /\ FixedObjectAtA) =>
     /\ res.deserializePrefix.ok =>
          /\ Region = SerializedFrom
          /\ (IF isItem(layout) THEN res.deserializePrefix.ret
              ELSE Get(res.deserializePrefix.ret, "a")) = ConstantItem.custom.to
     /\ (/\ Len(buf) >= RegionStart + RegionLen + TailLen
         /\ Region = SerializedFrom)
          => res.deserializePrefix.ok

\* the item a is a bytes item with a nested layout whose size is declared or
\* read from a length prefix
SubChunkAtA ==
  /\ ConstantItem.binary = "bytes" /\ Has(ConstantItem, "layout")
  /\ (Has(ConstantItem, "size") \/ Has(ConstantItem, "lengthSize"))

\* the length prefix of the item a lies in the buffer
PrefixRead == Len(buf) >= RegionStart

\* the nested layout read on the bytes of the region alone
NestedOnRegion == deserializeOn(ConstantItem.layout, Region, FALSE, store)

ReadOfA ==
  IF isItem(layout) THEN res.deserializePrefix.ret ELSE Get(res.deserializePrefix.ret, "a")

\* C19 (sub-chunk exactness): whenever the caller has read a buffer through a
\* layout whose item a is a bytes item with a nested layout and a size n,
\* declared or read from the length prefix, the call threw if the n bytes
\* behind the prefix do not lie in the buffer, threw if the nested layout does
\* not read the n bytes or reads fewer than n of them, and on success read
\* n bytes plus the prefix for the item; a nested boundless bytes item is read
\* whenever the buffer holds the n bytes, and yields exactly those.
SubChunkExact ==
  (Did("deserializePrefix") /\ SubChunkAtA) =>
     /\ (~PrefixRead \/ RegionStart + RegionLen > Len(buf)) => ~res.deserializePrefix.ok
     /\ (PrefixRead /\ RegionStart + RegionLen <= Len(buf)) =>
          Let(NestedOnRegion, LAMBDA nested :
             /\ ~nested.ok => ~res.deserializePrefix.ok
             /\ (nested.ok /\ nested.bytesRead < RegionLen) =>
                   ~res.deserializePrefix.ok /\ res.deserializePrefix.err = "ReadLess"
             /\ res.deserializePrefix.ok =>
                   /\ nested.ok /\ nested.bytesRead = RegionLen
                   /\ res.deserializePrefix.bytesRead = RegionStart + RegionLen + TailLen
                   /\ ~Has(ConstantItem, "custom") => ReadOfA = nested.ret)
     /\ (/\ ConstantItem.layout = [binary |-> "bytes"] /\ ~Has(ConstantItem, "custom")
         /\ PrefixRead /\ RegionStart + RegionLen + TailLen <= Len(buf))
          => res.deserializePrefix.ok /\ ReadOfA = Bytes(Region)

\* a nested array of two bytes behind a length prefix of 2 was read behind the
\* item p, up to the end of the buffer
SubChunkExactWitness ==
  /\ Did("deserializePrefix") /\ SubChunkAtA
  /\ isProper(layout) /\ Len(layout.proper) = 2 /\ StartOfA = 1
  /\ Has(ConstantItem, "lengthSize")
  /\ isItem(ConstantItem.layout) /\ ConstantItem.layout.binary = "array"
  /\ RegionLen = 2
  /\ res.deserializePrefix.ok /\ res.deserializePrefix.bytesRead = 4

(***************************************************************************)
(* The length prefix scenario: the caller sizes and writes length-prefixed *)
(* bytes and arrays whose payloads are empty, short, and around the limit  *)
(* of a one-byte prefix.                                                   *)
(***************************************************************************)
PrefixShapes ==
  { [lengthSize |-> 1], [lengthSize |-> 1, lengthEndianness |-> "little"],
    [lengthSize |-> 2], [lengthSize |-> 2, lengthEndianness |-> "little"] }

PrefixItems ==
  { Spread(kind, sh) :
      kind \in { [binary |-> "bytes"],
                 [binary |-> "bytes", custom |-> Bytes(<<1, 1>>)],
                 [binary |-> "bytes", layout |-> Proper(<<Named("x", [binary |-> "bytes"])>>)],
                 [binary |-> "array", layout |-> U8],
                 [binary |-> "array", layout |-> [binary |-> "uint", size |-> 2]] },
      sh \in PrefixShapes }

\* the numbers of payload bytes and of array elements
PayloadSizes == {0, 1, 255, 256, 258}

\* a value of the item with n bytes or elements
PayloadOf(item, n) ==
  IF item.binary = "array" THEN Arr(Rep(Num(7), n))
  ELSE IF Has(item, "layout") THEN Obj([x |-> Bytes(Rep(7, n))])
  ELSE IF Has(item, "custom") THEN item.custom
  ELSE Bytes(Rep(7, n))

\* the values of the layout: 1 for the item p, 258 for the item q
PrefixValues(lay) ==
  IF isItem(lay) THEN { PayloadOf(lay, n) : n \in PayloadSizes }
  ELSE { Obj([name \in { lay.proper[i].name : i \in DOMAIN lay.proper } |->
                 IF name = "p" THEN Num(1)
                 ELSE IF name = "q" THEN Num(258)
                 ELSE PayloadOf(lay.proper[IF lay.proper[1].name = "a" THEN 1 ELSE 2], n)]) :
           n \in PayloadSizes }

InitPrefix ==
  /\ pc = "calcSize"
  /\ layout \in UNION { PlacesOf(item) : item \in PrefixItems }
  /\ data \in PrefixValues(layout)
  /\ buf = <<>>
  /\ res = EmptyObj
  /\ store = NoHeap
  /\ target = defaultEndianness

NextPrefix == CalcSize \/ Serialize

SpecPrefix == InitPrefix /\ [][NextPrefix]_vars

\* the number the prefix of the item a has to hold: the elements of an array,
\* the bytes of a payload, the serialized size of a nested layout
PrefixCount ==
  IF ConstantItem.binary = "array" THEN Len(FieldValue.a)
  ELSE IF Has(ConstantItem, "layout")
    THEN Len(serialize(ConstantItem.layout, FieldValue, Undef).ret.b)
  ELSE Len(FieldValue.b)

\* the payload of the item a in bytes
PayloadSize ==
  IF ConstantItem.binary = "array" THEN Len(FieldValue.a) * ConstantItem.layout.size
  ELSE PrefixCount

\* the number n in size bytes of the byte order
EncodedCount(n, size, endianness) ==
  [i \in 1..size |-> (n \div (256 ^ (IF endianness = "big" THEN size - i ELSE i - 1))) % 256]

\* C20 (length prefix): whenever serialize was called on a layout whose item a
\* is length-prefixed and starts at offset o, it threw if the number of payload
\* bytes (of elements, for an array) is not below 2^(8*lengthSize); otherwise
\* the lengthSize bytes at o hold that number in lengthEndianness, the payload
\* follows them, and the next item follows the payload.
PrefixWritten ==
  (Did("serialize") /\ Has(ConstantItem, "lengthSize")) =>
     LET o == StartOfA
         lengthSize == ConstantItem.lengthSize
         lengthEndianness == IF Has(ConstantItem, "lengthEndianness")
                             THEN ConstantItem.lengthEndianness ELSE "big"
     IN /\ res.serialize.ok = (PrefixCount < 256 ^ lengthSize)
        /\ res.serialize.ok =>
             /\ SubSeq(buf, o + 1, o + lengthSize)
                  = EncodedCount(PrefixCount, lengthSize, lengthEndianness)
             /\ Len(buf) = o + lengthSize + PayloadSize + TailLen
             /\ ConstantItem.binary = "bytes" =>
                  SubSeq(buf, o + lengthSize + 1, o + lengthSize + PayloadSize)
                    = (IF Has(ConstantItem, "layout") THEN FieldValue.f.x.b ELSE FieldValue.b)
             /\ TailLen = 2 => SubSeq(buf, Len(buf) - 1, Len(buf)) = <<1, 2>>

\* 258 bytes were written behind a little-endian prefix of two bytes, between
\* the items p and q
PrefixWrittenWitness ==
  /\ Did("serialize") /\ res.serialize.ok
  /\ Has(ConstantItem, "lengthSize") /\ ConstantItem.lengthSize = 2
  /\ Has(ConstantItem, "lengthEndianness")
  /\ StartOfA = 1 /\ TailLen = 2
  /\ PrefixCount = 258
  /\ SubSeq(buf, 2, 3) = <<2, 1>>

(***************************************************************************)
(* The error scenario: the caller writes values of nested layouts in which *)
(* one field is missing or wrong, and reads the bytes of the right values  *)
(* with one byte changed or with their end cut off.                        *)
(***************************************************************************)
ErrLayouts ==
  { Proper(<<Named("head", U8),
             Named("body", [binary |-> "bytes", lengthSize |-> 1,
                            layout |-> Proper(<<Named("n", U8),
                                                Named("c", [binary |-> "uint", size |-> 1,
                                                            custom |-> Num(1)]),
                                                Named("b", [binary |-> "bytes", size |-> 2]),
                                                Named("list", [binary |-> "array", length |-> 2,
                                                               layout |-> U8])>>)]),
             Named("tail", [binary |-> "uint", size |-> 2])>>),
    Proper(<<Named("head", U8),
             Named("rows", [binary |-> "array", lengthSize |-> 1,
                            layout |-> Proper(<<Named("v", U8),
                                                Named("w", [binary |-> "bytes", size |-> 1])>>)]),
             Named("tail", [binary |-> "uint", size |-> 2])>>),
    Proper(<<Named("pick", [binary |-> "switch", idSize |-> 1,
                            layouts |-> << <<PlainId(1), Proper(<<Named("x", U8)>>)>>,
                                           <<PlainId(2), Proper(<<Named("y", [binary |-> "bytes",
                                                                             size |-> 2])>>)>> >>]),
             Named("tail", [binary |-> "uint", size |-> 2])>>) }

\* a value of the layout
RightValue(lay) ==
  IF Has(lay.proper[1], "binary") /\ lay.proper[1].binary = "switch"
  THEN Obj([pick |-> Obj([id |-> Num(2), y |-> Bytes(<<7, 7>>)]), tail |-> Num(258)])
  ELSE IF lay.proper[2].name = "body"
  THEN Obj([head |-> Num(5),
            body |-> Obj([n |-> Num(6), c |-> Num(1), b |-> Bytes(<<7, 7>>),
                          list |-> Arr(<<Num(8), Num(9)>>)]),
            tail |-> Num(258)])
  ELSE Obj([head |-> Num(5),
            rows |-> Arr(<<Obj([v |-> Num(1), w |-> Bytes(<<2>>)]),
                           Obj([v |-> Num(3), w |-> Bytes(<<4>>)])>>),
            tail |-> Num(258)])

Without(f, key) == [k \in (DOMAIN f) \ {key} |-> f[k]]

RECURSIVE WrongValues(_)
\* the value with one field taken away, one number too large for a byte, one
\* byte array a byte longer, or one array an element shorter
WrongValues(val) ==
  IF isNumType(val) THEN { Num(256) }
  ELSE IF isBytesType(val) THEN { Bytes(Append(val.b, 0)) }
  ELSE IF val.t = "arr"
    THEN { Arr(Tail(val.a)) }
         \cup { Arr([val.a EXCEPT ![i] = wrong]) : <<i, wrong>> \in
                   UNION { {i} \X WrongValues(val.a[i]) : i \in DOMAIN val.a } }
  ELSE IF val.t = "obj"
    THEN { Obj(Without(val.f, key)) : key \in DOMAIN val.f }
         \cup { Obj([val.f EXCEPT ![kw[1]] = kw[2]]) : kw \in
                   UNION { {key} \X WrongValues(val.f[key]) : key \in DOMAIN val.f } }
  ELSE {}

InitErr ==
  /\ pc = "calcSize"
  /\ layout \in ErrLayouts
  /\ data \in {RightValue(layout)} \cup WrongValues(RightValue(layout))
  /\ buf = <<>>
  /\ res = EmptyObj
  /\ store = NoHeap
  /\ target = defaultEndianness

\* the bytes written reach the reader without their end
Truncate ==
  /\ pc = "deserialize" /\ ~Did("garble") /\ ~Did("truncate")
  /\ \E k \in 0..(Len(buf) - 1) :
       /\ buf' = SubSeq(buf, 1, k)
       /\ res' = Record("truncate", k)
  /\ UNCHANGED <<pc, layout, data, store, target>>

NextErr == CalcSize \/ Serialize \/ Garble \/ Truncate \/ Deserialize

SpecErr == InitErr /\ [][NextErr]_vars

RECURSIVE FaultsIn(_, _, _)
\* the named items of the layout that the value has no right field for, each as
\* the names of the items that enclose it, outermost first, and its own name
FaultsIn(lay, val, chain) ==
  IF isProper(lay)
  THEN IF val.t # "obj" THEN {chain}
       ELSE UNION { LET item == lay.proper[i]
                    IN IF IsOmitted(item) THEN {}
                       ELSE IF ~Has(val.f, item.name) THEN { Append(chain, item.name) }
                       ELSE FaultsIn(item, val.f[item.name], Append(chain, item.name)) :
                    i \in DOMAIN lay.proper }
  ELSE IF lay.binary \in {"uint", "int"}
    THEN IF ~isNumType(val) THEN {chain}
         ELSE IF Has(lay, "custom") THEN (IF LooseNumEq(lay.custom, val) THEN {} ELSE {chain})
         ELSE IF val.neg \/ IntOf(val) >= 256 ^ lay.size THEN {chain} ELSE {}
  ELSE IF lay.binary = "bytes"
    THEN IF Has(lay, "layout") THEN FaultsIn(lay.layout, val, chain)
         ELSE IF ~isBytesType(val) \/ (Has(lay, "size") /\ Len(val.b) # lay.size) THEN {chain}
         ELSE {}
  ELSE IF lay.binary = "array"
    THEN IF val.t # "arr" \/ (Has(lay, "length") /\ Len(val.a) # lay.length) THEN {chain}
         ELSE UNION { FaultsIn(lay.layout, val.a[i], chain) : i \in DOMAIN val.a }
  ELSE LET pairs == { i \in DOMAIN lay.layouts : lay.layouts[i][1] = Get(val, "id") }
       IN IF val.t # "obj" \/ pairs = {} THEN {chain}
          ELSE UNION { FaultsIn(lay.layouts[i][2], Obj(Without(val.f, "id")), chain) : i \in pairs }

\* the first bytes of the items of the layout in the bytes of the value
RECURSIVE StartOf(_)
StartOf(i) ==
  IF i = 1 THEN 0
  ELSE StartOf(i - 1)
       + calcSize(layout.proper[i - 1], data.f[layout.proper[i - 1].name]).size

\* the item of the layout that holds the byte at offset k of the bytes of the value
ItemHolding(k) ==
  CHOOSE i \in DOMAIN layout.proper :
     /\ StartOf(i) <= k
     /\ i = Len(layout.proper) \/ k < StartOf(i + 1)

\* C21 (error path prefixing): whenever serialize has thrown on a value with
\* one missing or wrong field, the error names the items that enclose the
\* field, outermost first, and the field's item last; whenever deserialize has
\* thrown on bytes cut off inside an item, the error names that item first.
ErrorsNamed ==
  /\ (Did("serialize") /\ ~res.serialize.ok) => res.serialize.path \in FaultsIn(layout, data, <<>>)
  /\ (Did("deserialize") /\ Did("truncate") /\ ~Did("garble")) =>
        /\ ~res.deserialize.ok
        /\ res.deserialize.path # <<>>
        /\ res.deserialize.path[1] = layout.proper[ItemHolding(res.truncate)].name

(***************************************************************************)
(* The queue scenario: the caller writes and reads values of layouts with  *)
(* several converted bytes items: side by side, as elements of an array,   *)
(* in the branches of a switch, and nested in a converted item.            *)
(***************************************************************************)
Utf8Item == [binary |-> "bytes", lengthSize |-> 1, custom |-> Conv("utf8")]

QueueItems ==
  { optionItem(Utf8Item),
    [binary |-> "array", lengthSize |-> 1, layout |-> optionItem(Utf8Item)],
    [binary |-> "array", lengthSize |-> 1, layout |-> Utf8Item],
    [binary |-> "array", length |-> 2,
     layout |-> Proper(<<Named("s", Utf8Item), Named("n", U8), Named("t", Utf8Item)>>)],
    [binary |-> "switch", idSize |-> 1,
     layouts |-> << <<PlainId(1), Proper(<<Named("x", Utf8Item)>>)>>,
                    <<PlainId(2), Proper(<<Named("y", Utf8Item), Named("z", Utf8Item)>>)>> >>],
    [binary |-> "bytes", lengthSize |-> 1,
     layout |-> Proper(<<Named("s", Utf8Item), Named("o", optionItem(Utf8Item))>>)] }

InitQueue ==
  /\ pc = "calcSize"
  /\ layout \in UNION { PlacesOf(item) : item \in QueueItems }
  /\ data \in ValuesOf(layout)
  /\ buf = <<>>
  /\ res = EmptyObj
  /\ store = NoHeap
  /\ target = defaultEndianness

NextQueue == CalcSize \/ Serialize \/ Deserialize

SpecQueue == InitQueue /\ [][NextQueue]_vars

RECURSIVE Flat(_)
\* the sequences of a sequence, one behind the other
Flat(seqs) == IF seqs = <<>> THEN <<>> ELSE Head(seqs) \o Flat(Tail(seqs))

RECURSIVE ConversionsOf(_, _)
\* custom.from of every occurrence of a bytes item with a conversion function
\* in the value, in the order of the layout: an item before the items nested in
\* it, the elements of an array in their order, the branch of a switch the
\* value selects
ConversionsOf(lay, val) ==
  IF isProper(lay)
  THEN Flat([i \in DOMAIN lay.proper |->
               ConversionsOf(lay.proper[i],
                             IF IsOmitted(lay.proper[i]) THEN Undef
                             ELSE val.f[lay.proper[i].name])])
  ELSE IF lay.binary = "bytes"
    THEN LET custom == CustomOf(lay)
             converts == custom # Undef /\ ~isBytesType(custom) /\ isFn(custom.from)
             converted == IF converts THEN ConvFrom(custom.from.id, val).val
                          ELSE IF custom # Undef /\ ~isBytesType(custom) THEN custom.from
                          ELSE val
         IN (IF converts THEN <<converted>> ELSE <<>>)
            \o (IF Has(lay, "layout") THEN ConversionsOf(lay.layout, converted) ELSE <<>>)
  ELSE IF lay.binary = "array"
    THEN Flat([i \in DOMAIN val.a |-> ConversionsOf(lay.layout, val.a[i])])
  ELSE IF lay.binary = "switch"
    THEN ConversionsOf(lay.layouts[findIdLayoutPair(lay, val)][2], val)
  ELSE <<>>

\* C22 (conversion queue alignment): whenever serialize has returned, the
\* queue of the call holds custom.from of every occurrence of a converted bytes
\* item once, in the order of the layout, the write pass has taken every entry
\* (the position is the length of the queue), and, where two or more entries
\* were queued, reading the bytes back gives each occurrence its own value.
QueueAligned ==
  (Did("serialize") /\ res.serialize.ok) =>
     /\ res.serialize.bcq.bytesConversions = ConversionsOf(layout, data)
     /\ res.serialize.bcq.position = Len(res.serialize.bcq.bytesConversions)
     /\ (Did("deserialize") /\ Len(res.serialize.bcq.bytesConversions) >= 2) =>
           res.deserialize.ok /\ SameValue(res.deserialize.ret, data)

\* an array of two optional texts, different ones, was written and read: the
\* queue holds each option before the bytes of its text
QueueAlignedWitness ==
  /\ Did("deserialize") /\ res.deserialize.ok
  /\ isProper(layout) /\ Len(layout.proper) = 3 /\ layout.proper[2].binary = "array"
  /\ Len(res.serialize.bcq.bytesConversions) = 4
  /\ res.serialize.bcq.bytesConversions[1].t = "obj"
  /\ isBytesType(res.serialize.bcq.bytesConversions[2])
  /\ res.serialize.bcq.bytesConversions[3].t = "obj"
  /\ isBytesType(res.serialize.bcq.bytesConversions[4])
  /\ res.serialize.bcq.bytesConversions[2] # res.serialize.bcq.bytesConversions[4]

(***************************************************************************)
(* Properties of the fixed and the dynamic items of a layout.              *)
(***************************************************************************)
\* a numeric item, a bytes item without nested layout, or a bytes item with a
\* nested layout and a conversion
IsLeaf(item) ==
  \/ item.binary \in {"uint", "int"}
  \/ item.binary = "bytes" /\ (~Has(item, "layout") \/ Has(item, "custom"))

\* the custom property of the leaf is a constant or a fixed conversion
IsFixedLeaf(item) ==
  Has(item, "custom") /\ (isPrimitiveType(item.custom) \/ ~isFn(item.custom.from))

RECURSIVE LeavesOf(_, _)
\* the leaves of a layout, each with the names of the named items that enclose
\* it, outermost first, and its own name last
LeavesOf(lay, chain) ==
  IF lay = Null THEN {}
  ELSE IF isProper(lay) THEN UNION { LeavesOf(lay.proper[i], chain) : i \in DOMAIN lay.proper }
  ELSE LET named == IF Has(lay, "name") THEN Append(chain, lay.name) ELSE chain
       IN IF IsLeaf(lay) THEN { <<named, lay>> }
          ELSE IF lay.binary = "switch"
            THEN UNION { LeavesOf(lay.layouts[i][2], named) : i \in DOMAIN lay.layouts }
          ELSE LeavesOf(lay.layout, named)

\* C23 (fixed/dynamic partition of leaves): whenever the caller has asked for
\* the fixed and the dynamic items of a layout, the leaves of fixedItemsOf are
\* the leaves of the layout whose custom is a constant or a fixed conversion,
\* the leaves of dynamicItemsOf are the other leaves of the layout, and each is
\* the item of the layout, under the same names.
LeavesPartitioned ==
  Did("fixedItemsOf") =>
     /\ LeavesOf(res.fixedItemsOf, <<>>)
          = { leaf \in LeavesOf(layout, <<>>) : IsFixedLeaf(leaf[2]) }
     /\ LeavesOf(res.dynamicItemsOf, <<>>)
          = { leaf \in LeavesOf(layout, <<>>) : ~IsFixedLeaf(leaf[2]) }

RECURSIVE HasEmptyContainer(_)
\* a filtered layout holds a switch branch with an empty layout, or a bytes item,
\* an array item or a switch item whose nested layout or branch list is empty
HasEmptyContainer(lay) ==
  IF lay = Null THEN FALSE
  ELSE IF isProper(lay) THEN \E i \in DOMAIN lay.proper : HasEmptyContainer(lay.proper[i])
  ELSE IF IsLeaf(lay) THEN FALSE
  ELSE IF lay.binary = "switch"
    THEN \/ lay.layouts = <<>>
         \/ \E i \in DOMAIN lay.layouts :
              lay.layouts[i][2].proper = <<>> \/ HasEmptyContainer(lay.layouts[i][2])
  ELSE \/ isProper(lay.layout) /\ lay.layout.proper = <<>>
       \/ HasEmptyContainer(lay.layout)

\* C24 (no empty containers after filtering): neither the fixed nor the dynamic
\* items of a layout hold a switch branch with an empty layout, or a bytes,
\* array or switch item whose filtered nested layout or branch list is empty.
NoEmptyContainers ==
  Did("fixedItemsOf") =>
     /\ ~HasEmptyContainer(res.fixedItemsOf)
     /\ ~HasEmptyContainer(res.dynamicItemsOf)

(***************************************************************************)
(* Properties of addFixedValues.                                           *)
(***************************************************************************)
RECURSIVE EmitsDecoded(_, _, _, _)
\* out, built from the dynamic values d, holds for every named leaf of the items
\* the decode-side value: nothing for an omitted item, the value read holds for
\* a fixed item (the constant, or custom.to of a fixed conversion), the value
\* of d for a dynamic item; items of a nested proper layout likewise
EmitsDecoded(items, out, d, read) ==
  \A i \in DOMAIN items :
     LET item == items[i]
         custom == CustomOf(item)
     IN IF IsLeaf(item)
        THEN IF IsOmitted(item) THEN ~Has(out.f, item.name)
             ELSE IF IsFixedLeaf(item)
               THEN /\ Has(out.f, item.name)
                    /\ out.f[item.name] = (IF isPrimitiveType(custom) THEN custom ELSE custom.to)
                    /\ SameValue(out.f[item.name], read.f[item.name])
             ELSE Has(d.f, item.name) =>
                    Has(out.f, item.name) /\ out.f[item.name] = d.f[item.name]
        ELSE (item.binary = "bytes" /\ isProper(item.layout)) =>
                /\ Has(out.f, item.name) /\ out.f[item.name].t = "obj"
                /\ EmitsDecoded(item.layout.proper, out.f[item.name],
                                OrEmpty(Get(d, item.name)), read.f[item.name])

\* C25 (addFixedValues emits decode-side fixed values): whenever the caller has
\* rebuilt a value with addFixedValues from the dynamic fields of the value it
\* read, the result holds the constant for a constant item, custom.to for a
\* fixed conversion on a numeric or bytes item and for a fixed-object
\* conversion, no key for an omitted item, and the value of the dynamic fields
\* for a dynamic item.
EmitsDecodedValues ==
  Did("addFixedValues") =>
     /\ res.addFixedValues.ok
     /\ isProper(layout) =>
          EmitsDecoded(layout.proper, res.addFixedValues.val,
                       project(res.deserialize.ret, res.dynamicItemsOf), res.deserialize.ret)
     /\ (isItem(layout) /\ IsLeaf(layout) /\ IsFixedLeaf(layout) /\ ~IsOmitted(layout)) =>
          SameValue(res.addFixedValues.val, res.deserialize.ret)

(***************************************************************************)
(* The loop of a boundless array, one element a step (deserialize.ts).     *)
(***************************************************************************)
MaxKept == 5

\* element layouts of the boundless array: two that read bytes, and the three
\* that read none
LoopElements ==
  { [binary |-> "uint", size |-> 1],
    Proper(<<Named("x", [binary |-> "uint", size |-> 2])>>),
    Proper(<<>>),
    [binary |-> "bytes", size |-> 0],
    [binary |-> "array", length |-> 0, layout |-> [binary |-> "uint", size |-> 1]] }

LoopBuffers == UNION { [1..n -> {0, 1, 255}] : n \in 0..3 }

InitLoop ==
  /\ pc = "array"
  /\ layout \in { [binary |-> "array", layout |-> element] : element \in LoopElements }
  /\ data = Undef
  /\ buf \in LoopBuffers
  /\ res = EmptyObj
  /\ store = NoHeap
  /\ target = defaultEndianness

\* case "array": let ret = []; ... neither length nor lengthSize
EnterArray ==
  /\ pc = "array"
  /\ res' = Record("loop", [encoded |-> [bytes |-> buf, offset |-> 0, end |-> Len(buf),
                                         heap |-> store],
                            ret |-> <<>>])
  /\ pc' = "while"
  /\ UNCHANGED <<layout, data, buf, store, target>>

\* while (encoded.offset < encoded.end) deserializeArrayItem(), one turn of the
\* loop; of ret the state keeps the first MaxKept elements
ArrayItem ==
  /\ pc = "while"
  /\ res.loop.encoded.offset < res.loop.encoded.end
  /\ Let(internalDeserialize(layout.layout, res.loop.encoded), LAMBDA r :
        IF r.ok
        THEN /\ res' = Record("loop", [encoded |-> r.encoded,
                                       ret |-> IF Len(res.loop.ret) < MaxKept
                                               THEN Append(res.loop.ret, r.val)
                                               ELSE res.loop.ret])
             /\ pc' = "while"
        ELSE /\ res' = Record("deserialize", [ok |-> FALSE, ret |-> Undef, err |-> r.err,
                                              path |-> r.path])
             /\ pc' = "done")
  /\ UNCHANGED <<layout, data, buf, store, target>>

\* the loop condition is false: return ret
LeaveArray ==
  /\ pc = "while"
  /\ ~(res.loop.encoded.offset < res.loop.encoded.end)
  /\ res' = Record("deserialize", [ok |-> TRUE, ret |-> Arr(res.loop.ret), err |-> "",
                                   path |-> <<>>])
  /\ pc' = "done"
  /\ UNCHANGED <<layout, data, buf, store, target>>

NextLoop == EnterArray \/ ArrayItem \/ LeaveArray

\* the loop runs as long as it can
SpecLoop == InitLoop /\ [][NextLoop]_vars /\ WF_vars(NextLoop)

\* C26 (deserialize terminates): reading a boundless array from a finite buffer
\* comes to an end, whatever the element layout, also if an element reads no
\* byte.
DeserializeTerminates == <>(pc = "done")

(***************************************************************************)
(* The wire format of numbers.                                             *)
(***************************************************************************)
\* the size bytes of v modulo 2^(8 size) in two's complement, least significant first
TwosComplement(v, size) ==
  LET padded == v.mag \o Rep(0, size - Len(v.mag))
  IN IF ~v.neg THEN padded
     ELSE SubSeq(Inc([i \in 1..size |-> 255 - padded[i]]), 1, size)

\* most significant byte first, unless the item says little endian
NumWireOf(v, item) ==
  IF Has(item, "endianness") /\ item.endianness = "little"
  THEN TwosComplement(v, item.size)
  ELSE Reverse(TwosComplement(v, item.size))

\* a small integer up to numberMaxSize bytes, an arbitrary-precision integer above
ReadBack(v, item) ==
  NumOf(IF item.size <= numberMaxSize THEN "number" ELSE "bigint", v.neg, v.mag)

\* serialize wrote the wire bytes of the value and deserialize returned the value
WireRoundTrip ==
  /\ Did("serialize") => res.serialize.ok /\ res.serialize.ret.b = NumWireOf(data, layout)
  /\ Did("deserialize") => res.deserialize.ok /\ res.deserialize.ret = ReadBack(data, layout)

\* C27 as stated (numeric wire format): for an integer in the range of a numeric
\* item of size s, serialize writes the s bytes of its two's complement, most
\* significant first unless the item is little endian, and deserialize returns
\* the integer from them, as a number up to 6 bytes and as a bigint above.
NumericWireFormat ==
  (~data.frac /\ InRange(data, layout)) => WireRoundTrip

\* C27 as the code has it: the same for an integer in the range of the item
\* that, when it is a JS number written through an item wider than
\* numberMaxSize bytes, lies in [-2^48, 2^48).
NumericWireFormatSafely ==
  (~data.frac /\ InRange(data, layout) /\ SafelyConvertible(data, layout)) => WireRoundTrip

\* the bigint -(2^47 + 1) was written through a little-endian int of
\* 7 bytes and read back as a bigint
NumericWireFormatSafelyWitness ==
  /\ Did("deserialize") /\ res.deserialize.ok
  /\ layout.binary = "int" /\ layout.size = numberMaxSize + 1
  /\ Has(layout, "endianness") /\ layout.endianness = "little"
  /\ data = NumOf("bigint", TRUE, Inc(Pow2(8 * numberMaxSize - 1)))
  /\ res.deserialize.ret.k = "bigint"

(***************************************************************************)
(* The chunks of a deserialize call, one item a step (deserialize.ts).     *)
(***************************************************************************)
MaxDepth == 3

ChunkBuffers == UNION { [1..n -> {0, 1, 2, 255}] : n \in 0..4 }

\* the items that read from the chunk they are given
ChunkLeaves ==
  { [binary |-> "uint", size |-> 1],
    [binary |-> "int", size |-> 2, endianness |-> "little"],
    [binary |-> "uint", size |-> 1, custom |-> Num(1)],
    [binary |-> "bytes", size |-> 2],
    [binary |-> "bytes", lengthSize |-> 1],
    [binary |-> "bytes", custom |-> Bytes(<<1, 2>>)],
    [binary |-> "bytes"] }

\* bytes items with a nested layout and a known size
ChunkCarvers ==
  { [binary |-> "bytes", size |-> 0], [binary |-> "bytes", size |-> 1],
    [binary |-> "bytes", size |-> 2], [binary |-> "bytes", lengthSize |-> 1] }

\* the chunk being read, the last of the chunks
Current == res.chunks[Len(res.chunks)]

\* the chunks with the current one replaced
WithCurrent(encoded) == [res.chunks EXCEPT ![Len(res.chunks)] = encoded]

InitChunk ==
  /\ pc = "read"
  /\ layout = Proper(<<>>)
  /\ data = Undef
  /\ buf \in ChunkBuffers
  /\ res = [chunks |-> <<[bytes |-> buf, offset |-> 0, end |-> Len(buf), heap |-> NoHeap]>>]
  /\ store = NoHeap
  /\ target = defaultEndianness

\* deserializeItem(item, encoded) for a numeric item or a bytes item without layout
ReadLeaf ==
  /\ pc = "read"
  /\ \E item \in ChunkLeaves :
       Let(deserializeItem(item, Current), LAMBDA r :
          IF r.ok
          THEN /\ res' = [chunks |-> WithCurrent(r.encoded), from |-> Current, item |-> item,
                          value |-> r.val]
               /\ pc' = "read"
          ELSE /\ res' = [chunks |-> res.chunks, err |-> r.err]
               /\ pc' = "done")
  /\ UNCHANGED <<layout, data, buf, store, target>>

\* a bytes item with a nested layout and a known size: read the prefix, carve the
\* sub-chunk, and go on in it
Carve ==
  /\ pc = "read"
  /\ Len(res.chunks) < MaxDepth
  /\ \E item \in ChunkCarvers :
       Let(IF Has(item, "lengthSize")
           THEN deserializeNum(Current, item.lengthSize, defaultEndianness, FALSE)
           ELSE Read(Num(item.size), Current), LAMBDA prefix :
          IF ~prefix.ok THEN res' = [chunks |-> res.chunks, err |-> prefix.err] /\ pc' = "done"
          ELSE Let(carve(prefix.encoded, IntOf(prefix.val)), LAMBDA r :
                  IF r.ok
                  THEN /\ res' = [chunks |-> Append(WithCurrent(r.encoded), r.subChunk)]
                       /\ pc' = "read"
                  ELSE /\ res' = [chunks |-> res.chunks, err |-> r.err]
                       /\ pc' = "done"))
  /\ UNCHANGED <<layout, data, buf, store, target>>

\* the nested layout is read: if (subChunk.offset !== subChunk.end) throw ...
Leave ==
  /\ pc = "read"
  /\ Len(res.chunks) > 1
  /\ IF Current.offset # Current.end
     THEN res' = [chunks |-> res.chunks, err |-> "ReadLess"] /\ pc' = "done"
     ELSE /\ res' = [chunks |-> SubSeq(res.chunks, 1, Len(res.chunks) - 1)]
          /\ pc' = "read"
  /\ UNCHANGED <<layout, data, buf, store, target>>

\* the layout is read: if (boolConsumeAll && encoded.offset !== encoded.end) throw ...
Finish ==
  /\ pc = "read"
  /\ Len(res.chunks) = 1
  /\ res' = IF consumedAll(Current) THEN [chunks |-> res.chunks]
            ELSE [chunks |-> res.chunks, err |-> "ExcessBytes"]
  /\ pc' = "done"
  /\ UNCHANGED <<layout, data, buf, store, target>>

NextChunk == ReadLeaf \/ Carve \/ Leave \/ Finish

SpecChunk == InitChunk /\ [][NextChunk]_vars

\* the bytes of a chunk with every byte outside the chunk cut off or set to zero
Inside(encoded) ==
  [i \in 1..encoded.end |-> IF i > encoded.offset THEN encoded.bytes[i] ELSE 0]

\* C28 (read-cursor bounds): every chunk of a deserialize call has
\* 0 <= offset <= end <= bytes.length, a sub-chunk ends no later than the chunk
\* it was carved from, reading an item does not move the offset back, and the
\* value an item returned is the value it returns when the bytes outside its
\* chunk are cut off or changed.
CursorBounded ==
  /\ \A i \in DOMAIN res.chunks :
        /\ 0 <= res.chunks[i].offset
        /\ res.chunks[i].offset <= res.chunks[i].end
        /\ res.chunks[i].end <= Len(res.chunks[i].bytes)
        /\ i > 1 => res.chunks[i].end <= res.chunks[i - 1].end
  /\ Has(res, "value") =>
        /\ res.from.offset <= Current.offset
        /\ Let(deserializeItem(res.item, [res.from EXCEPT !.bytes = Inside(res.from)]), LAMBDA alone :
              alone.ok /\ alone.val = res.value /\ alone.encoded.offset = Current.offset)

\* two bytes were read from a sub-chunk of two bytes that ends before the buffer does
CursorBoundedWitness ==
  /\ Len(res.chunks) = 2 /\ Has(res, "value")
  /\ res.item = [binary |-> "bytes"]
  /\ Current.offset = Current.end /\ res.from.offset = Current.end - 2
  /\ Current.end < Len(buf)

(***************************************************************************)
(* Calls of deserialize one after another in one process.                  *)
(***************************************************************************)
\* bytes items around a nested layout that share the conversion FixedObjectX1:
\* x of two bytes in either byte order or of one byte, the size left out,
\* declared right or declared wrong
HistItems ==
  { Spread([binary |-> "bytes", layout |-> Proper(<<Named("x", nested)>>),
            custom |-> FixedObjectX1], sh) :
      nested \in { [binary |-> "uint", size |-> 2],
                   [binary |-> "uint", size |-> 2, endianness |-> "little"],
                   [binary |-> "uint", size |-> 1] },
      sh \in { EmptyObj, [size |-> 2], [size |-> 3] } }

HistBuffers == { <<1>>, <<0, 1>>, <<1, 0>>, <<0, 1, 0>> }

InitHist ==
  /\ pc = "call"
  /\ layout \in HistItems
  /\ data = Undef
  /\ buf \in HistBuffers
  /\ res = EmptyObj
  /\ store = NoHeap
  /\ target = defaultEndianness

\* an earlier call deserialize(lay, bytes) of the process
EarlierDeserialize ==
  /\ pc = "call"
  /\ \E lay \in HistItems, bytes \in HistBuffers :
        store' = deserializeOn(lay, bytes, TRUE, store).heap
  /\ UNCHANGED <<pc, layout, data, buf, res, target>>

\* the caller goes on with setEndianness(layout, endianness)
SwitchEndianness ==
  /\ pc = "call"
  /\ \E endianness \in {"little", "big"} : layout' = setEndianness(layout, endianness)
  /\ UNCHANGED <<pc, data, buf, res, store, target>>

\* the call deserialize(layout, buf)
DeserializeNow ==
  /\ pc = "call"
  /\ Let(deserializeOn(layout, buf, TRUE, store), LAMBDA r :
        /\ res' = Record("deserialize", Outcome(r))
        /\ store' = r.heap)
  /\ pc' = "done"
  /\ UNCHANGED <<layout, data, buf, target>>

NextHist == EarlierDeserialize \/ SwitchEndianness \/ DeserializeNow

SpecHist == InitHist /\ [][NextHist]_vars

\* C29 (history independence of deserialize): whatever calls went before, the
\* value or the error of deserialize(layout, buf) is the one of the same call
\* in a process that made no call yet.
HistoryIndependent ==
  Did("deserialize") => res.deserialize = Outcome(deserializeOn(layout, buf, TRUE, NoHeap))

(***************************************************************************)
(* serialize into a buffer of the caller that is too short.                *)
(***************************************************************************)
Shortfalls == {1, 2}

\* the buffers one or two bytes shorter than the value needs
ShortFor(lay, val) ==
  Let(calcSize(lay, val), LAMBDA sized :
     { Filled(sized.size - short) : short \in { k \in Shortfalls : sized.ok /\ k <= sized.size } })

InitShort ==
  /\ pc = "serializeInto"
  /\ layout \in Layouts
  /\ data \in ValuesOf(layout)
  /\ buf \in ShortFor(layout, data)
  /\ res = EmptyObj
  /\ store = NoHeap
  /\ target = defaultEndianness

SpecShort == InitShort /\ [][NextInto]_vars

\* C30 (no silent overflow of a caller buffer): whenever the caller has passed
\* serialize a buffer shorter than calcSize of the value, serialize threw; when
\* it returned a count, the count is at most the length of the buffer.
NoSilentOverflow ==
  /\ (Did("calcSize") /\ res.calcSize.ok /\ Len(res.provided) < res.calcSize.size) =>
        ~res.serializeInto.ok
  /\ (Did("serializeInto") /\ res.serializeInto.ok) =>
        IntOf(res.serializeInto.ret) <= Len(res.provided)

====
